---- MODULE Spec2Model ----
(***************************************************************************)
(* A model of the logtape logger core: the category tree of LoggerImpl     *)
(* (src/logtape/logger/logger.ts), category normalisation, level filters   *)
(* and the emission pipeline (emit / _log / logLazily / logTemplate).      *)
(*                                                                         *)
(* Logger objects are numbered in creation order: nodes[i] is the object   *)
(* with identity i.  Weakly held children are modelled by the reference    *)
(* stored in the parent's children map, which a collection clears.         *)
(***************************************************************************)
EXTENDS Integers, Sequences, FiniteSets, TLC

VARIABLES
    nodes,      \* the LoggerImpl objects ever created, by identity
    held,       \* the logger the application holds a reference to, or None
    seen,       \* history: an earlier lookup, its category and its result
    last,       \* observation of the most recent call
    configured, \* config.ts: whether a configuration is active
    rotating    \* the rotating file sink and the files it writes

vars == <<nodes, held, seen, last, configured, rotating>>

-----------------------------------------------------------------------------
(* Bounds of the model *)

MaxNodes == 5
StackLimit == 6
MaxRegs == 3

-----------------------------------------------------------------------------
(* Values *)

None == 0

Undefined == [def |-> FALSE, map |-> << >>]
Obj(m) == [def |-> TRUE, map |-> m]

Overlay(a, b) ==
    [k \in (DOMAIN a) \cup (DOMAIN b) |-> IF k \in DOMAIN b THEN b[k] ELSE a[k]]

\* On a conflict the key of the default properties is kept.
mergePropertiesDefaultsWin(defaultProperties, properties) ==
    IF defaultProperties.def /\ properties.def
    THEN Obj(Overlay(properties.map, defaultProperties.map))
    ELSE IF defaultProperties.def THEN defaultProperties ELSE properties

mergeProperties(defaultProperties, properties) ==
    IF defaultProperties.def /\ properties.def
    THEN Obj(Overlay(defaultProperties.map, properties.map))
    ELSE IF defaultProperties.def THEN defaultProperties ELSE properties

-----------------------------------------------------------------------------
(* Categories.  A MaybeCategory value is a string, null, undefined or an   *)
(* array of MaybeCategory values.                                          *)

Str(s) == [t |-> "str", v |-> s, items |-> << >>]
Null == [t |-> "null", v |-> "", items |-> << >>]
Undef == [t |-> "undefined", v |-> "", items |-> << >>]
Arr(xs) == [t |-> "arr", v |-> "", items |-> xs]

RECURSIVE deepFlatten(_)
deepFlatten(arr) ==
    IF arr.t = "str" THEN <<arr.v>>
    ELSE IF arr.t # "arr" THEN << >>
    ELSE LET RECURSIVE flatMap(_)
             flatMap(xs) ==
                 IF xs = << >> THEN << >>
                 ELSE (IF Head(xs).t = "str" THEN <<Head(xs).v>>
                       ELSE deepFlatten(Head(xs))) \o flatMap(Tail(xs))
         IN flatMap(arr.items)

getCategoryList(category) == deepFlatten(category)

\* JavaScript truthiness of a MaybeCategory value (an array is truthy).
Truthy(x) == x.t = "arr" \/ (x.t = "str" /\ x.v # "")

\* category.length of a Category argument (string length or array length).
JsLength(x) == IF x.t = "arr" THEN Len(x.items) ELSE IF x.v = "" THEN 0 ELSE 1

\* The list of non-empty segments an input denotes.
RECURSIVE NonEmpty(_)
NonEmpty(list) ==
    IF list = << >> THEN << >>
    ELSE (IF Head(list) = "" THEN << >> ELSE <<Head(list)>>) \o NonEmpty(Tail(list))

Denotes(x) == NonEmpty(deepFlatten(x))

-----------------------------------------------------------------------------
(* The logger tree *)

Names == {"logtape", "meta", "foo", "bar"}

RootId == 1
metaLoggerCategory == <<"logtape", "meta">>

NewLogger(parent, category, properties) ==
    [ parent |-> parent,
      category |-> category,
      children |-> [n \in Names |-> None],
      sinks |-> << >>,
      parentSinks |-> "inherit",
      filters |-> << >>,
      propTransformers |-> << >>,
      properties |-> properties ]

\* The category of the new logger is its own name alone.
ConstructNameOnly(ns, parent, category, properties) ==
    NewLogger(parent, SubSeq(category, Len(category), Len(category)),
              mergeProperties(IF parent = None THEN Undefined
                              ELSE ns[parent].properties,
                              properties))

\* new LoggerImpl(parent, category, properties)
Construct(ns, parent, category, properties) ==
    NewLogger(parent, category,
              mergeProperties(IF parent = None THEN Undefined
                              ELSE ns[parent].properties,
                              properties))

\* this.with(properties): a new object, registered in no children map.
WithOp(ns, this, properties) ==
    [ nodes |-> Append(ns, Construct(ns, this, ns[this].category, properties)),
      res |-> Len(ns) + 1,
      err |-> "none" ]

\* The result of a call that is still recursing when the call stack is
\* exhausted: the engine throws RangeError and the tree is as it was.
StackOverflow(ns) == [nodes |-> ns, res |-> None, err |-> "RangeError"]

RECURSIVE getChild(_, _, _, _, _)
getChild(ns, this, subcategory, properties, fuel) ==
    IF fuel = 0 THEN StackOverflow(ns)
    ELSE IF ~Truthy(subcategory)
    THEN IF properties.def THEN WithOp(ns, this, properties)
         ELSE [nodes |-> ns, res |-> this, err |-> "none"]
    ELSE
    LET subcategoryList == getCategoryList(subcategory)
        hasName == subcategoryList # << >> /\ subcategoryList[1] # ""
        name == subcategoryList[1]
        childRef == IF hasName THEN ns[this].children[name] ELSE None
        create == hasName /\ childRef = None
        ns2 == IF create
               THEN Append([ns EXCEPT ![this].children[name] = Len(ns) + 1],
                           Construct(ns, this,
                                     Append(ns[this].category, name),
                                     Undefined))
               ELSE ns
        child == IF ~hasName THEN this
                 ELSE IF create THEN Len(ns) + 1 ELSE childRef
    IN IF Len(subcategoryList) = 1
       THEN [nodes |-> ns2, res |-> child, err |-> "none"]
       ELSE getChild(ns2, child,
                     Arr([i \in 1..(Len(subcategoryList) - 1) |->
                            Str(subcategoryList[i + 1])]),
                     Undefined, fuel - 1)

\* LoggerImpl.getLogger(category); absent argument = the default [].
getLogger(ns, category) ==
    IF JsLength(category) = 0 THEN [nodes |-> ns, res |-> RootId, err |-> "none"]
    ELSE getChild(ns, RootId, category, Undefined, StackLimit)

\* The module-level constants: the root logger and
\* metaLogger = LoggerImpl.getLogger(["logtape", "meta"]).
InitialNodes ==
    getLogger(<<NewLogger(None, << >>, Undefined)>>,
              Arr(<<Str("logtape"), Str("meta")>>)).nodes

metaLogger == 3

-----------------------------------------------------------------------------
(* Levels and filters *)

levelsOrder == <<"fatal", "critical", "error", "warning", "info", "debug">>

getLevelIndex(level) == CHOOSE i \in 0..5 : levelsOrder[i + 1] = level

\* The comparison of the two positions is turned round.
getLevelFilterBelow(level, recordLevel) ==
    IF level = "null" THEN FALSE
    ELSE IF level = "debug" THEN TRUE
    ELSE getLevelIndex(level) <= getLevelIndex(recordLevel)

\* The verdict of the filter getLevelFilter(level) on a record level;
\* level "null" is the threshold that rejects everything.
getLevelFilter(level, recordLevel) ==
    IF level = "null" THEN FALSE
    ELSE IF level = "debug" THEN TRUE
    ELSE getLevelIndex(level) >= getLevelIndex(recordLevel)

LevelFilter(l) == [type |-> "level", arg |-> l]
\* (r) => r.properties has the key "c"; (r) => r.message.length > 1
PeekProps == [type |-> "fn", arg |-> "peekProps"]
PeekMsg == [type |-> "fn", arg |-> "peekMsg"]

-----------------------------------------------------------------------------
(* Records and their lazily realised fields *)

Sinks == {"s1", "s2"}

\* What a sink function does with the record it is given.
Behaviours == {"ok", "read", "throw"}

\* All literals are pushed first and the values after them.
renderMessageValuesLast(template, values) == template \o values

renderMessage(template, values) ==
    LET RECURSIVE args(_)
        args(i) ==
            IF i > Len(template) THEN << >>
            ELSE <<template[i]>>
                 \o (IF i <= Len(values) THEN <<values[i]>> ELSE << >>)
                 \o args(i + 1)
    IN args(1)

Count(seq, P(_)) == Cardinality({i \in 1..Len(seq) : P(seq[i])})

EmptyRun == [trace |-> << >>, pcache |-> << >>, mcache |-> << >>]

Put(f, k, v) == [x \in (DOMAIN f) \cup {k} |-> IF x = k THEN v ELSE f[x]]

Log(st, ev) == [st EXCEPT !.trace = Append(@, ev)]

\* One property transformer.  "tag" is
\* ({properties = {}}) => ({...properties, t: 1}); "drop" is () => undefined.
ApplyTransformer(t, props) ==
    IF t = "drop" THEN Undefined
    ELSE Obj(Overlay(IF props.def THEN props.map ELSE << >>, [k \in {"t"} |-> 1]))

\* The transformers of the list are applied from the last to the first.
propTransformReversed(ns, n, rawProps) ==
    LET RECURSIVE chain(_, _)
        chain(i, props) ==
            IF i < 1 THEN [val |-> props, ran |-> << >>]
            ELSE LET r == chain(i - 1,
                                ApplyTransformer(ns[n].propTransformers[i], props))
                 IN  [val |-> r.val,
                      ran |-> <<[e |-> "transform", node |-> n,
                                 t |-> ns[n].propTransformers[i]]>> \o r.ran]
    IN  chain(Len(ns[n].propTransformers), rawProps)

RECURSIVE propTransform(_, _, _)
propTransform(ns, n, rawProps) ==
    IF Len(ns[n].propTransformers) < 1
    THEN IF ns[n].parent = None THEN [val |-> rawProps, ran |-> << >>]
         ELSE LET r == propTransform(ns, ns[n].parent, rawProps)
              IN  [val |-> IF r.val.def THEN r.val ELSE rawProps, ran |-> r.ran]
    ELSE LET RECURSIVE chain(_, _)
             chain(i, props) ==
                 IF i > Len(ns[n].propTransformers)
                 THEN [val |-> props, ran |-> << >>]
                 ELSE LET r == chain(i + 1,
                                  ApplyTransformer(ns[n].propTransformers[i], props))
                      IN  [val |-> r.val,
                           ran |-> <<[e |-> "transform", node |-> n,
                                      t |-> ns[n].propTransformers[i]]>> \o r.ran]
         IN chain(1, rawProps)

\* The value the properties argument of _log yields: the object itself, or
\* what the callback returns.  The callback is impure: it returns the
\* number of times it has run.
PropertiesArg(rec, st) ==
    IF rec.propsArg.fn
    THEN Obj([k \in {"c"} |->
                Count(st.trace, LAMBDA ev : ev.e = "propsCb" /\ ev.key = rec.key) + 1])
    ELSE rec.propsArg.val

CallbackRun(rec, st) ==
    IF rec.propsArg.fn THEN Log(st, [e |-> "propsCb", key |-> rec.key]) ELSE st

TransformersRun(rec, st, r) ==
    [st |-> [st EXCEPT !.trace =
                @ \o [i \in 1..Len(r.ran) |->
                        [e |-> "transform", node |-> r.ran[i].node,
                         t |-> r.ran[i].t, key |-> rec.key]]],
     val |-> r.val]

\* getProperties of _log: the properties callback (if the argument is one),
\* the merge with the bound properties, then the transformer chain.
getProperties(ctx, rec, st) ==
    TransformersRun(rec, CallbackRun(rec, st),
                    propTransform(ctx.ns, rec.this,
                                  mergeProperties(ctx.ns[rec.this].properties,
                                                  PropertiesArg(rec, st))))

\* The own properties of a record made by logLazily or logTemplate.
OwnProperties(ctx, rec, st) ==
    [st |-> st, val |-> mergeProperties(ctx.ns[rec.this].properties, Obj(<< >>)),
     err |-> "none"]

\* The getter returns the value without replacing itself.
getterOnly(rec, g) == [st |-> g.st, val |-> g.val, err |-> "none"]

\* Object.defineProperty(this, "properties", { value }); return value
defineProperty(rec, g) ==
    [st |-> [g.st EXCEPT !.pcache = Put(@, rec.key, g.val)],
     val |-> g.val, err |-> "none"]

\* The getter of record.properties, without the memoisation.
ReadPropsUncached(ctx, rec, st) ==
    IF rec.kind # "_log" THEN OwnProperties(ctx, rec, st)
    ELSE getterOnly(rec, getProperties(ctx, rec, st))

\* A read of record.properties: an own data property for logLazily and
\* logTemplate; for _log a getter that replaces itself by its value.
ReadProps(ctx, rec, st) ==
    IF rec.kind # "_log" THEN OwnProperties(ctx, rec, st)
    ELSE IF rec.key \in DOMAIN st.pcache
    THEN [st |-> st, val |-> st.pcache[rec.key], err |-> "none"]
    ELSE defineProperty(rec, getProperties(ctx, rec, st))

\* realizeMessage of logLazily: the callback runs; if it did not call the
\* template prefix function, TypeError; else message and rawMessage become
\* data properties.
realizeMessage(ctx, rec, st) ==
    LET st1 == Log(st, [e |-> "msgCb", key |-> rec.key])
    IN  IF rec.cb = "bad"
        THEN [st |-> st1, val |-> << >>, err |-> "TypeError"]
        ELSE LET msg == renderMessage(rec.tpl, rec.values)
             IN  [st |-> [st1 EXCEPT !.mcache = Put(@, rec.key, msg)],
                  val |-> msg, err |-> "none"]

\* A read of record.message.
ReadMsg(ctx, rec, st) ==
    IF rec.kind = "_log"
    THEN [st |-> st, val |-> <<rec.rawMessage>>, err |-> "none"]
    ELSE IF rec.kind = "template"
    THEN [st |-> st, val |-> renderMessage(rec.tpl, rec.values), err |-> "none"]
    ELSE IF rec.key \in DOMAIN st.mcache
    THEN [st |-> st, val |-> st.mcache[rec.key], err |-> "none"]
    ELSE realizeMessage(ctx, rec, st)

-----------------------------------------------------------------------------
(* filter, getSinks, emit *)

\* (r) => "c" in r.properties, given the outcome of the read.
PropsVerdict(r) ==
    [st |-> r.st, res |-> r.val.def /\ "c" \in DOMAIN r.val.map, err |-> r.err]

\* (r) => r.message.length > 1, given the outcome of the read.
MsgVerdict(r) == [st |-> r.st, res |-> Len(r.val) > 1, err |-> r.err]

EvalFilter(ctx, f, rec, st) ==
    IF f.type = "level"
    THEN [st |-> st, res |-> getLevelFilter(f.arg, rec.level), err |-> "none"]
    ELSE IF f.arg = "peekProps" THEN PropsVerdict(ReadProps(ctx, rec, st))
    ELSE MsgVerdict(ReadMsg(ctx, rec, st))

RECURSIVE filter(_, _, _, _)
RECURSIVE filterFrom(_, _, _, _, _)

FilterEvent(n, rec, i, r) ==
    Log(r.st, [e |-> "filter", node |-> n, i |-> i, key |-> rec.key,
               res |-> r.res, err |-> r.err])

\* if (!filter(record)) return false; a filter that throws ends the loop too.
FilterRan(ctx, n, rec, i, r) ==
    IF r.err # "none" \/ ~r.res
    THEN [st |-> FilterEvent(n, rec, i, r), res |-> FALSE, err |-> r.err]
    ELSE filterFrom(ctx, n, rec, FilterEvent(n, rec, i, r), i + 1)

\* The parent is asked also when the own filters have all accepted.
filterFromAlsoParent(ctx, n, rec, st, i) ==
    IF i > Len(ctx.ns[n].filters)
    THEN IF ctx.ns[n].parent # None
         THEN filter(ctx, ctx.ns[n].parent, rec, st)
         ELSE [st |-> st, res |-> TRUE, err |-> "none"]
    ELSE FilterRan(ctx, n, rec, i,
                   EvalFilter(ctx, ctx.ns[n].filters[i], rec, st))

\* The loop of filter over this.filters, from position i on; with no own
\* filter, the parent's decision (true at the root).
filterFrom(ctx, n, rec, st, i) ==
    IF i > Len(ctx.ns[n].filters)
    THEN IF Len(ctx.ns[n].filters) < 1 /\ ctx.ns[n].parent # None
         THEN filter(ctx, ctx.ns[n].parent, rec, st)
         ELSE [st |-> st, res |-> TRUE, err |-> "none"]
    ELSE FilterRan(ctx, n, rec, i,
                   EvalFilter(ctx, ctx.ns[n].filters[i], rec, st))

\* LoggerImpl.filter: the node's own filters in order, stopping at the first
\* false.
filter(ctx, n, rec, st) == filterFrom(ctx, n, rec, st, 1)

\* The policy is not looked at: the sinks of every ancestor are yielded.
RECURSIVE getSinksOfAll(_, _)
getSinksOfAll(ns, n) ==
    (IF ns[n].parent # None THEN getSinksOfAll(ns, ns[n].parent) ELSE << >>)
        \o ns[n].sinks

\* Nothing is inherited: the own sinks only.
getSinksOwnOnly(ns, n) == ns[n].sinks

RECURSIVE getSinks(_, _)
getSinks(ns, n) ==
    (IF ns[n].parent # None /\ ns[n].parentSinks = "inherit"
     THEN getSinks(ns, ns[n].parent) ELSE << >>) \o ns[n].sinks

SinkRead(rp, rm) ==
    [st |-> rm.st, read |-> TRUE, props |-> rp.val, msg |-> rm.val, err |-> rm.err]

\* A sink that reads record.properties, then record.message.
ReadingSink(ctx, rec, rp) == SinkRead(rp, ReadMsg(ctx, rec, rp.st))

\* sink(record): what the sink reads and whether it throws.
InvokeSink(ctx, sink, rec, st) ==
    IF ctx.beh[sink] = "throw" THEN [st |-> st, read |-> FALSE, err |-> "Error"]
    ELSE IF ctx.beh[sink] = "ok" THEN [st |-> st, read |-> FALSE, err |-> "none"]
    ELSE ReadingSink(ctx, rec, ReadProps(ctx, rec, st))

\* The bypass set handed to the meta logger when a sink has thrown.
BypassSame(bypassSinks, sink) == bypassSinks

bypassSinks2(bypassSinks, sink) == bypassSinks \cup {sink}

\* if (bypassSinks?.has(sink)) continue;
BypassNever(bypassSinks, sink) == FALSE

Bypassed(bypassSinks, sink) == sink \in bypassSinks

\* What leaves the try/catch around sink(record) when the sink throws.
Rethrown(error) == error

Caught(error) == "none"

\* The record _log builds for the meta logger.
LogRecord(level, rawMessage, properties, key) ==
    [ key |-> key,
      this |-> metaLogger,
      category |-> metaLoggerCategory,
      level |-> level,
      kind |-> "_log",
      rawMessage |-> rawMessage,
      propsArg |-> [fn |-> FALSE, val |-> properties],
      cb |-> "none", tpl |-> << >>, values |-> << >> ]

FailureProperties(rec, sink, error) ==
    Obj([k \in {"sink", "error", "record"} |->
           IF k = "sink" THEN sink ELSE IF k = "error" THEN error ELSE rec.key])

MetaRecordAsError(rec, i, sink, error) ==
    LogRecord("error", "Failed to emit a log record to sink",
              FailureProperties(rec, sink, error), Append(rec.key, i))

\* metaLogger._log("fatal", "Failed to emit a log record to sink",
\*                 {sink, error, record}, bypassSinks2) in the catch block.
MetaRecord(rec, i, sink, error) ==
    LogRecord("fatal", "Failed to emit a log record to sink",
              FailureProperties(rec, sink, error), Append(rec.key, i))

RECURSIVE emit(_, _, _, _, _, _)
RECURSIVE dispatch(_, _, _, _, _, _, _)

SinkEvent(n, rec, bypassSinks, depth, i, sink, r) ==
    Log(r.st, [e |-> "sink", sink |-> sink, key |-> rec.key,
               category |-> rec.category, level |-> rec.level,
               node |-> n, i |-> i, depth |-> depth,
               bypass |-> bypassSinks, read |-> r.read,
               props |-> IF r.read THEN r.props ELSE Undefined,
               msg |-> IF r.read THEN r.msg ELSE << >>,
               err |-> r.err])

MetaEvent(st, rec, i, sink, error, depth) ==
    Log(st, [e |-> "meta", key |-> MetaRecord(rec, i, sink, error).key,
             sink |-> sink, record |-> rec.key, error |-> error,
             depth |-> depth + 1])

\* The loop ends with the catch block.
AfterCatchStops(ctx, n, rec, bypassSinks, depth, i, error, m) ==
    [st |-> m.st, err |-> m.err]

\* After the catch block: the loop goes on with the next sink, unless the
\* meta logger's own emit ended abnormally.
AfterCatch(ctx, n, rec, bypassSinks, depth, i, error, m) ==
    IF m.err # "none" THEN m
    ELSE IF Caught(error) # "none" THEN [st |-> m.st, err |-> Caught(error)]
    ELSE dispatch(ctx, n, rec, bypassSinks, m.st, depth, i + 1)

\* The failure is reported to the meta logger after the remaining sinks of
\* the list have been invoked.
MetaAfterRest(ctx, rec, bypassSinks, depth, i, sink, error, rest) ==
    IF rest.err # "none" THEN rest
    ELSE emit(ctx, metaLogger, MetaRecord(rec, i, sink, error),
              bypassSinks2(bypassSinks, sink),
              MetaEvent(rest.st, rec, i, sink, error, depth), depth + 1)

TryCatchDeferred(ctx, n, rec, bypassSinks, depth, i, sink, r) ==
    IF r.err = "none"
    THEN dispatch(ctx, n, rec, bypassSinks,
                  SinkEvent(n, rec, bypassSinks, depth, i, sink, r), depth, i + 1)
    ELSE MetaAfterRest(ctx, rec, bypassSinks, depth, i, sink, r.err,
                       dispatch(ctx, n, rec, bypassSinks,
                                SinkEvent(n, rec, bypassSinks, depth, i, sink, r),
                                depth, i + 1))

\* try { sink(record) } catch (error) { ... metaLogger._log(...) }
TryCatch(ctx, n, rec, bypassSinks, depth, i, sink, r) ==
    IF r.err = "none"
    THEN dispatch(ctx, n, rec, bypassSinks,
                  SinkEvent(n, rec, bypassSinks, depth, i, sink, r), depth, i + 1)
    ELSE AfterCatch(ctx, n, rec, bypassSinks, depth, i, r.err,
                    emit(ctx, metaLogger, MetaRecord(rec, i, sink, r.err),
                         bypassSinks2(bypassSinks, sink),
                         MetaEvent(SinkEvent(n, rec, bypassSinks, depth, i, sink, r),
                                   rec, i, sink, r.err, depth),
                         depth + 1))

\* The loop of emit over getSinks(), from position i on.
dispatch(ctx, n, rec, bypassSinks, st, depth, i) ==
    IF i > Len(getSinks(ctx.ns, n)) THEN [st |-> st, err |-> "none"]
    ELSE IF Bypassed(bypassSinks, getSinks(ctx.ns, n)[i])
    THEN dispatch(ctx, n, rec, bypassSinks, st, depth, i + 1)
    ELSE TryCatch(ctx, n, rec, bypassSinks, depth, i, getSinks(ctx.ns, n)[i],
                  InvokeSink(ctx, getSinks(ctx.ns, n)[i], rec, st))

\* The filter verdict is not looked at.
FilterIgnored(ctx, n, rec, bypassSinks, depth, f) ==
    IF f.err # "none" THEN [st |-> f.st, err |-> f.err]
    ELSE dispatch(ctx, n, rec, bypassSinks, f.st, depth, 1)

\* if (!this.filter(record)) return; then the loop over the sinks.
Filtered(ctx, n, rec, bypassSinks, depth, f) ==
    IF f.err # "none" THEN [st |-> f.st, err |-> f.err]
    ELSE IF ~f.res THEN [st |-> f.st, err |-> "none"]
    ELSE dispatch(ctx, n, rec, bypassSinks, f.st, depth, 1)

\* LoggerImpl.emit(record, bypassSinks).  A call nested deeper than the call
\* stack allows ends in RangeError.
emit(ctx, n, rec, bypassSinks, st, depth) ==
    IF depth > StackLimit THEN [st |-> st, err |-> "RangeError"]
    ELSE Filtered(ctx, n, rec, bypassSinks, depth, filter(ctx, n, rec, st))

-----------------------------------------------------------------------------
(* Reachability: what the collector may not reclaim *)

RECURSIVE Ancestors(_, _)
Ancestors(ns, n) ==
    IF n = None THEN {} ELSE {n} \cup Ancestors(ns, ns[n].parent)

\* Objects kept alive by a strong reference: the global root, the module
\* constant metaLogger, what the application holds, and their parents.
StrongReach(ns, h) ==
    UNION {Ancestors(ns, n) : n \in {h, RootId, metaLogger}}

\* Objects a lookup from the root can still find.
RECURSIVE LiveFrom(_, _)
LiveFrom(ns, n) ==
    {n} \cup UNION {LiveFrom(ns, ns[n].children[c]) :
                      c \in {d \in Names : ns[n].children[d] # None}}

\* A logger made by with(), or found below one: not the node of its category.
RECURSIVE IsVariant(_, _)
IsVariant(ns, n) ==
    /\ n # RootId
    /\ \/ Len(ns[n].category) = Len(ns[ns[n].parent].category)
       \/ IsVariant(ns, ns[n].parent)

-----------------------------------------------------------------------------
(* Inputs *)

foo == Str("foo")
bar == Str("bar")
empty == Str("")

\* Strings, absent values, flat lists and nested lists, with and without
\* empty and absent segments.
SubcategoryInputs ==
    { foo, bar, empty, Null, Undef,
      Arr(<< >>), Arr(<<foo>>), Arr(<<foo, bar>>),
      Arr(<<empty>>), Arr(<<Null>>), Arr(<<Undef>>),
      Arr(<<empty, bar>>), Arr(<<Null, bar>>), Arr(<<foo, empty>>),
      Arr(<<foo, Null>>), Arr(<<foo, empty, bar>>),
      Arr(<<Arr(<< >>)>>), Arr(<<Arr(<<empty>>)>>), Arr(<<Arr(<<Null>>)>>),
      Arr(<<foo, Arr(<<bar>>)>>), Arr(<<Arr(<<foo>>), bar>>),
      Arr(<<foo, Arr(<< >>)>>), Arr(<<Arr(<< >>), foo>>),
      Arr(<<Arr(<<foo, Arr(<<bar>>)>>)>>) }

RECURSIVE HasAbsent(_)
HasAbsent(x) ==
    \/ x.t \in {"null", "undefined"}
    \/ x.t = "arr" /\ \E i \in 1..Len(x.items) : HasAbsent(x.items[i])

\* The type Category admits no null; getLogger() is getLogger([]).
CategoryInputs == {x \in SubcategoryInputs : ~HasAbsent(x)}

PropInputs == {Undefined, Obj([k \in {"a"} |-> 1])}

-----------------------------------------------------------------------------
(* Registry operations *)

NoCall == [op |-> "none"]
\* No rotating file sink has been made.
NoFileSink == [open |-> FALSE]
NoSeen == [cat |-> << >>, res |-> None]

Lookup(op, this, input, props, r) ==
    LET cat == nodes[this].category \o Denotes(input)
    IN  /\ Len(r.nodes) <= MaxNodes
        /\ nodes' = r.nodes
        /\ held' = IF r.err = "none" THEN r.res ELSE held
        /\ seen' = seen
        /\ configured' = configured
        /\ rotating' = rotating
        /\ last' = [ op |-> op, this |-> this, sub |-> Denotes(input),
                     props |-> props, made |-> Len(r.nodes) - Len(nodes),
                     cat |-> cat, bound |-> props.def,
                     res |-> r.res, err |-> r.err,
                     prev |-> IF seen.res # None /\ seen.cat = cat
                              THEN seen.res ELSE None ]

GetLogger(category) ==
    Lookup("getLogger", RootId, category, Undefined, getLogger(nodes, category))

GetChild(this, subcategory, properties) ==
    Lookup("getChild", this, subcategory, properties,
           getChild(nodes, this, subcategory, properties, StackLimit))

With(this, properties) ==
    LET r == WithOp(nodes, this, properties)
    IN  /\ Len(r.nodes) <= MaxNodes
        /\ nodes' = r.nodes
        /\ held' = r.res
        /\ seen' = seen
        /\ configured' = configured
        /\ rotating' = rotating
        /\ last' = [op |-> "with", this |-> this, props |-> properties,
                    res |-> r.res]

\* Observer: the application notes what a lookup on the tree itself (no
\* bound properties, not through a with() logger) returned, to compare it
\* with what a later lookup of the same category returns.
Note ==
    /\ last.op \in {"getLogger", "getChild"}
    /\ last.err = "none" /\ ~last.bound /\ ~IsVariant(nodes, last.this)
    /\ seen' = [cat |-> last.cat, res |-> last.res]
    /\ UNCHANGED <<nodes, held, last, configured, rotating>>

\* The application drops its reference.
Release ==
    /\ held # None
    /\ held' = None
    /\ UNCHANGED <<nodes, seen, configured, rotating>>
    /\ last' = NoCall

\* The collector reclaims a logger nothing references strongly: the WeakRef
\* in its parent's children map is cleared (deref() gives undefined).
Collect(n) ==
    /\ n \in 1..Len(nodes)
    /\ n \notin StrongReach(nodes, held)
    /\ \E c \in Names : nodes[nodes[n].parent].children[c] = n
    /\ nodes' = [nodes EXCEPT ![nodes[n].parent].children =
                    [c \in Names |-> IF @[c] = n THEN None ELSE @[c]]]
    /\ seen' = IF seen.res \in LiveFrom(nodes', RootId) THEN seen ELSE NoSeen
    /\ held' = held
    /\ configured' = configured
    /\ rotating' = rotating
    /\ last' = NoCall

Callers == {RootId} \cup (IF held = None THEN {} ELSE {held})

InitTree ==
    /\ nodes = InitialNodes
    /\ held = None
    /\ seen = NoSeen
    /\ last = NoCall
    /\ configured = FALSE
    /\ rotating = NoFileSink

NextTree ==
    \/ \E c \in CategoryInputs : GetLogger(c)
    \/ \E n \in Callers, s \in SubcategoryInputs, p \in PropInputs :
          GetChild(n, s, p)
    \/ \E n \in Callers, p \in PropInputs \ {Undefined} : With(n, p)
    \/ Note
    \/ Release
    \/ \E n \in 1..Len(nodes) : Collect(n)

SpecTree == InitTree /\ [][NextTree]_vars

-----------------------------------------------------------------------------
(* Configuration by the application: logger.sinks.push(sink) and the like *)

RECURSIVE SumRegs(_, _)
SumRegs(ns, i) ==
    IF i > Len(ns) THEN 0
    ELSE Len(ns[i].sinks) + Len(ns[i].filters) + Len(ns[i].propTransformers)
         + (IF ns[i].parentSinks = "override" THEN 1 ELSE 0) + SumRegs(ns, i + 1)

Configure(ns) ==
    /\ SumRegs(nodes, 1) < MaxRegs
    /\ nodes' = ns
    /\ last' = NoCall
    /\ UNCHANGED <<held, seen, configured, rotating>>

AddSink(n, sink) == Configure([nodes EXCEPT ![n].sinks = Append(@, sink)])

AddFilter(n, f) == Configure([nodes EXCEPT ![n].filters = Append(@, f)])

AddTransformer(n, t) ==
    Configure([nodes EXCEPT ![n].propTransformers = Append(@, t)])

SetOverride(n) ==
    /\ nodes[n].parentSinks = "inherit"
    /\ Configure([nodes EXCEPT ![n].parentSinks = "override"])

-----------------------------------------------------------------------------
(* Log calls *)

CallKinds == {"props", "propsCb", "lazy", "lazyBad", "template"}

\* The record each protocol hands to emit.
\*   _log(level, "Hello, {c}!", {c: 1} or () => ({c: ...}))
\*   logLazily(level, l => l`Hello, ${v}!`), or a callback that never calls l
\*   logTemplate(level, `Hello, ${v}!`)
MakeRecord(ns, n, level, call) ==
    [ key |-> << >>,
      this |-> n,
      category |-> ns[n].category,
      level |-> level,
      kind |-> IF call \in {"props", "propsCb"} THEN "_log"
               ELSE IF call = "template" THEN "template" ELSE "lazy",
      rawMessage |-> "Hello, {c}!",
      propsArg |-> [fn |-> call = "propsCb", val |-> Obj([k \in {"c"} |-> 1])],
      cb |-> IF call = "lazy" THEN "good" ELSE IF call = "lazyBad" THEN "bad"
             ELSE "none",
      tpl |-> <<"Hello, ", "!">>,
      values |-> <<"v">> ]

\* What the caller of log sees: whether the call threw, and (for the
\* properties below) the calls that were made on the way.
Outcome(n, level, call, r) ==
    [ op |-> "log", this |-> n, level |-> level, call |-> call,
      trace |-> r.st.trace, err |-> r.err ]

\* logger.log(level, ...): build the record, emit it with no bypass set.
LogCall(n, level, call, beh) ==
    /\ last.op # "log"
    /\ last' = Outcome(n, level, call,
                       emit([ns |-> nodes, beh |-> beh], n,
                            MakeRecord(nodes, n, level, call), {}, EmptyRun, 0))
    /\ UNCHANGED <<nodes, held, seen, configured, rotating>>

\* The application has looked at the outcome of the log call.
Return ==
    /\ last.op = "log"
    /\ last' = NoCall
    /\ UNCHANGED <<nodes, held, seen, configured, rotating>>

\* The sink functions present in the tree, and what each may do when called;
\* a sink that is registered nowhere is never called.
Registered(ns) ==
    {s \in Sinks : \E i \in 1..Len(ns) :
                     \E j \in 1..Len(ns[i].sinks) : ns[i].sinks[j] = s}

SinkBehaviours(ns) ==
    {beh \in [Sinks -> Behaviours] : \A s \in Sinks \ Registered(ns) : beh[s] = "ok"}

-----------------------------------------------------------------------------
(* The specification of the emission pipeline *)

App == IF held = None THEN {} ELSE {held}
LogLevels == {"info", "error"}

Init ==
    /\ nodes = InitialNodes
    /\ held = None
    /\ seen = NoSeen
    /\ last = NoCall
    /\ configured = FALSE
    /\ rotating = NoFileSink

\* Where the application registers what: both sinks on the root, the
\* first also on its own logger, the second also on the meta logger.
SinkChoices == ({RootId} \X Sinks) \cup (App \X {"s1"}) \cup {<<metaLogger, "s2">>}

FilterChoices ==
    (({RootId} \cup App) \X {LevelFilter("warning"), PeekProps})
        \cup (App \X {PeekMsg})

Next ==
    \/ GetLogger(foo)
    \/ \E c \in SinkChoices : AddSink(c[1], c[2])
    \/ \E c \in FilterChoices : AddFilter(c[1], c[2])
    \/ AddTransformer(RootId, "tag")
    \/ \E n \in {metaLogger} \cup App : SetOverride(n)
    \/ \E n \in {RootId} \cup App, l \in LogLevels, c \in CallKinds,
          beh \in SinkBehaviours(nodes) : LogCall(n, l, c, beh)
    \/ Return

Spec == Init /\ [][Next]_vars

-----------------------------------------------------------------------------
(* Reading the observation of a log call *)

IsLog == last.op = "log"
Trace == IF IsLog THEN last.trace ELSE << >>
Ev(kind) == {i \in 1..Len(Trace) : Trace[i].e = kind}
SinkCalls == Ev("sink")
Thrown == {i \in SinkCalls : Trace[i].err # "none"}
TopKey == << >>

IsPrefix(p, q) == Len(p) <= Len(q) /\ \A i \in 1..Len(p) : p[i] = q[i]

\* The callbacks of the record with the given key that have run.
Callbacks(key) == {i \in Ev("propsCb") \cup Ev("msgCb") : Trace[i].key = key}
Transforms(key) == {i \in Ev("transform") : Trace[i].key = key}

\* The filter decision emit got for the record with the given key.
Rejected(key) ==
    \E i \in Ev("filter") :
        Trace[i].key = key /\ Trace[i].err = "none" /\ ~Trace[i].res

\* The filter list that decides for node n: the nearest non-empty one.
RECURSIVE EffectiveFilters(_, _)
EffectiveFilters(ns, n) ==
    IF ns[n].filters # << >> \/ ns[n].parent = None THEN ns[n].filters
    ELSE EffectiveFilters(ns, ns[n].parent)

LevelOnly(fs) == \A i \in 1..Len(fs) : fs[i].type = "level"
LevelAccepts(fs, level) ==
    \A i \in 1..Len(fs) : getLevelFilter(fs[i].arg, level)

\* The sub-sequence of seq whose elements satisfy P.
Select(seq, P(_)) ==
    LET RECURSIVE sel(_)
        sel(xs) ==
            IF xs = << >> THEN << >>
            ELSE (IF P(Head(xs)) THEN <<Head(xs)>> ELSE << >>) \o sel(Tail(xs))
    IN sel(seq)

-----------------------------------------------------------------------------
(* C1 *)

\* C1: a log call in which only sinks throw (the lazy callback, if any, does
\* call the template prefix) returns normally to its caller, whatever sinks
\* threw in the original or in a nested meta dispatch.
C1_SinkFailuresContained ==
    (IsLog /\ last.call # "lazyBad") => last.err = "none"

\* A call in which a sink threw for the record and another threw for the
\* meta record about it.
C1_Witness ==
    /\ IsLog /\ last.call # "lazyBad" /\ last.err = "none"
    /\ \E i, j \in Thrown : Trace[i].depth = 0 /\ Trace[j].depth = 1

-----------------------------------------------------------------------------
(* C2 *)

\* C2: every log call ends without exhausting the call stack, and no meta
\* dispatch is nested deeper than the number of distinct sinks plus one.
C2_BoundedMetaNesting ==
    IsLog =>
        /\ last.err # "RangeError"
        /\ \A i \in 1..Len(Trace) :
              Trace[i].e \in {"sink", "meta"} =>
                  Trace[i].depth <= Cardinality(Registered(nodes)) + 1

\* A throwing sink that is also in the meta logger's list, with the nesting
\* as deep as the number of sinks.
C2_Witness ==
    /\ IsLog /\ last.err = "none"
    /\ \E i \in Thrown :
          \E j \in 1..Len(getSinks(nodes, metaLogger)) :
              getSinks(nodes, metaLogger)[j] = Trace[i].sink
    /\ \E i \in Ev("meta") : Trace[i].depth = Cardinality(Registered(nodes))
    /\ Cardinality(Registered(nodes)) = 2

-----------------------------------------------------------------------------
(* C3 *)

\* C3: the sink whose failure caused a meta record is invoked neither with
\* that meta record nor with any meta record nested below it; the bypass
\* set of a meta dispatch is the bypass set of the failing dispatch plus the
\* failing sink, and no invoked sink is in the bypass set of its dispatch.
C3_FailedSinkBypassed ==
    IsLog =>
        /\ \A m \in Ev("meta"), j \in SinkCalls :
              IsPrefix(Trace[m].key, Trace[j].key) => Trace[j].sink # Trace[m].sink
        /\ \A m \in Ev("meta"), j \in SinkCalls :
              Trace[j].key = Trace[m].key =>
                  \E f \in Thrown :
                      /\ Trace[f].key = Trace[m].record
                      /\ Append(Trace[f].key, Trace[f].i) = Trace[m].key
                      /\ Trace[j].bypass = Trace[f].bypass \cup {Trace[f].sink}
        /\ \A j \in SinkCalls : Trace[j].sink \notin Trace[j].bypass

\* The failing sink is in the meta logger's list, and the meta record went
\* to another sink of that list.
C3_Witness ==
    /\ IsLog
    /\ \E m \in Ev("meta"), j \in SinkCalls :
          /\ Trace[j].key = Trace[m].key
          /\ \E k \in 1..Len(getSinks(nodes, metaLogger)) :
                getSinks(nodes, metaLogger)[k] = Trace[m].sink

-----------------------------------------------------------------------------
(* C4 *)

\* C4: within one emit of a record, a sink that has thrown for the record is
\* not invoked with that record again.
C4_NoSecondInvocationAfterThrow ==
    IsLog =>
        \A i, j \in SinkCalls :
            (i < j /\ Trace[i].key = TopKey /\ Trace[j].key = TopKey
                   /\ Trace[i].sink = Trace[j].sink)
                => Trace[i].err = "none"

-----------------------------------------------------------------------------
(* C5 *)

\* The sink call whose exception made the meta record of event m.
Failure(m) ==
    CHOOSE f \in Thrown : Append(Trace[f].key, Trace[f].i) = Trace[m].key

MetaBypass(m) == Trace[Failure(m)].bypass \cup {Trace[Failure(m)].sink}

MetaProps(m) ==
    Obj([k \in {"sink", "error", "record"} |->
           IF k = "sink" THEN Trace[m].sink
           ELSE IF k = "error" THEN Trace[m].error ELSE Trace[m].record])

\* The sinks the record with the given key was handed to, in order.
Deliveries(key) ==
    LET calls == Select(Trace, LAMBDA ev : ev.e = "sink" /\ ev.key = key)
    IN  [i \in 1..Len(calls) |-> calls[i].sink]

OneMetaRecordPerFailure ==
    /\ \A f \in Thrown :
          Cardinality({m \in Ev("meta") :
                          /\ Trace[m].key = Append(Trace[f].key, Trace[f].i)
                          /\ Trace[m].sink = Trace[f].sink
                          /\ Trace[m].record = Trace[f].key
                          /\ Trace[m].error = Trace[f].err}) = 1
    /\ Cardinality(Ev("meta")) = Cardinality(Thrown)

MetaRecordShape(m, j) ==
    /\ Trace[j].category = metaLoggerCategory
    /\ Trace[j].level = "fatal"
    /\ Trace[j].read => Trace[j].msg = <<"Failed to emit a log record to sink">>

\* C5 as stated: one meta record per sink exception, its properties exactly
\* {sink, record, error}, delivered exactly once to every sink of the meta
\* logger's list that is not bypassed, when the meta filter accepts it.
C5_AsStated ==
    IsLog =>
        /\ OneMetaRecordPerFailure
        /\ \A m \in Ev("meta") :
              /\ \A j \in SinkCalls :
                    Trace[j].key = Trace[m].key =>
                        /\ MetaRecordShape(m, j)
                        /\ Trace[j].read => Trace[j].props = MetaProps(m)
              /\ ~Rejected(Trace[m].key) =>
                    \A k \in 1..Len(getSinks(nodes, metaLogger)) :
                        LET s == getSinks(nodes, metaLogger)[k]
                        IN  s \notin MetaBypass(m) =>
                              Cardinality({j \in SinkCalls :
                                             /\ Trace[j].key = Trace[m].key
                                             /\ Trace[j].sink = s}) = 1

\* C5, amended: one meta record per sink exception; its properties are what
\* the meta logger's property transformers make of {sink, record, error};
\* when the meta filter accepts it, it goes once to each occurrence, in the
\* meta logger's resolved sink list, of a sink that is not bypassed, in list
\* order, and to no sink when the filter rejects it.
C5_MetaRecordPerFailure ==
    IsLog =>
        /\ OneMetaRecordPerFailure
        /\ \A m \in Ev("meta") :
              /\ \A j \in SinkCalls :
                    Trace[j].key = Trace[m].key =>
                        /\ MetaRecordShape(m, j)
                        /\ Trace[j].read =>
                              Trace[j].props =
                                  propTransform(nodes, metaLogger, MetaProps(m)).val
              /\ Deliveries(Trace[m].key) =
                    IF Rejected(Trace[m].key) THEN << >>
                    ELSE Select(getSinks(nodes, metaLogger),
                                LAMBDA s : s \notin MetaBypass(m))

\* A meta record, changed by a property transformer, read by a sink.
C5_Witness ==
    /\ IsLog
    /\ \E m \in Ev("meta"), j \in SinkCalls :
          /\ Trace[j].key = Trace[m].key
          /\ Trace[j].read
          /\ "t" \in DOMAIN Trace[j].props.map
          /\ Trace[j].props # MetaProps(m)

-----------------------------------------------------------------------------
(* C6 *)

TopReaders == {j \in SinkCalls : Trace[j].key = TopKey /\ Trace[j].read}

\* C6: for a call with a properties callback or a template-prefix callback on
\* a logger whose effective filters are level filters: the callback does not
\* run when they reject the level, and runs exactly once when they accept it
\* and at least one sink reads the record.
C6_CallbackZeroOrOnce ==
    (/\ IsLog
     /\ last.call \in {"propsCb", "lazy"}
     /\ LevelOnly(EffectiveFilters(nodes, last.this)))
    => LET fs == EffectiveFilters(nodes, last.this)
       IN  /\ ~LevelAccepts(fs, last.level) => Callbacks(TopKey) = {}
           /\ (LevelAccepts(fs, last.level) /\ TopReaders # {})
                 => Cardinality(Callbacks(TopKey)) = 1

\* An accepted level, a level filter in force and two sinks that read.
C6_Witness ==
    /\ IsLog
    /\ last.call = "propsCb"
    /\ EffectiveFilters(nodes, last.this) # << >>
    /\ LevelOnly(EffectiveFilters(nodes, last.this))
    /\ Cardinality(TopReaders) = 2
    /\ Cardinality(Callbacks(TopKey)) = 1

-----------------------------------------------------------------------------
(* C7 *)

\* The filters that ran for the record were all level filters.
OnlyLevelFiltersRan(key) ==
    \A i \in Ev("filter") :
        Trace[i].key = key =>
            nodes[Trace[i].node].filters[Trace[i].i].type = "level"

\* C7 as stated: when the effective filter returns false, no sink is invoked
\* and neither the lazy properties nor the lazy message are realised,
\* whatever the filter functions are.
C7_AsStated ==
    (IsLog /\ Rejected(TopKey)) =>
        /\ SinkCalls = {}
        /\ Callbacks(TopKey) = {}
        /\ Transforms(TopKey) = {}

\* C7, amended: when the effective filter returns false no sink is invoked;
\* and when no filter that ran reads record.properties or record.message
\* (level filters), neither of them is realised.
C7_RejectedHasNoEffect ==
    (IsLog /\ Rejected(TopKey)) =>
        /\ SinkCalls = {}
        /\ OnlyLevelFiltersRan(TopKey) =>
              (Callbacks(TopKey) = {} /\ Transforms(TopKey) = {})

\* A rejected record with pending lazy properties on a logger that has a
\* sink and a property transformer.
C7_Witness ==
    /\ IsLog /\ Rejected(TopKey) /\ OnlyLevelFiltersRan(TopKey)
    /\ last.call = "propsCb"
    /\ getSinks(nodes, last.this) # << >>
    /\ nodes[RootId].propTransformers # << >>

-----------------------------------------------------------------------------
(* C8 *)

RECURSIVE EffectiveTransformers(_, _)
EffectiveTransformers(ns, n) ==
    IF ns[n].propTransformers # << >> \/ ns[n].parent = None
    THEN ns[n].propTransformers
    ELSE EffectiveTransformers(ns, ns[n].parent)

Keys == {Trace[i].key : i \in 1..Len(Trace)}
Owner(key) == IF key = TopKey THEN last.this ELSE metaLogger

\* C8: for a record made by _log, the properties callback and the property
\* transformer chain run at most once, however many filters and sinks read
\* record.properties, and all sinks that read it get the same value.
C8_PropertiesMemoized ==
    IsLog =>
        \A key \in Keys :
            /\ Cardinality({i \in Ev("propsCb") : Trace[i].key = key}) <= 1
            /\ Cardinality(Transforms(key))
                  <= Len(EffectiveTransformers(nodes, Owner(key)))
            /\ \A i, j \in SinkCalls :
                  (Trace[i].key = key /\ Trace[j].key = key
                      /\ Trace[i].read /\ Trace[j].read)
                  => Trace[i].props = Trace[j].props

\* A properties callback whose record a filter and two sinks read.
C8_Witness ==
    /\ IsLog /\ last.call = "propsCb"
    /\ \E i \in Ev("filter") :
          /\ Trace[i].key = TopKey
          /\ nodes[Trace[i].node].filters[Trace[i].i] = PeekProps
    /\ Cardinality(TopReaders) = 2
    /\ Cardinality(Callbacks(TopKey)) = 1

-----------------------------------------------------------------------------
(* C9 *)

\* C9: a lazy call whose callback never calls the template prefix raises
\* TypeError to the caller of the log call whenever the message is realised.
C9_TypeErrorReachesCaller ==
    (IsLog /\ last.call = "lazyBad" /\ Callbacks(TopKey) # {})
        => last.err = "TypeError"

-----------------------------------------------------------------------------
(* C10 *)

IsLookup == last.op \in {"getLogger", "getChild"}

\* C10: a lookup on the tree, by whatever input denotes the category, ends
\* normally, returns the object an earlier lookup of the same category
\* returned (no collection in between), and returns the root for the empty
\* category.
C10_SameCategorySameObject ==
    (IsLookup /\ ~last.bound /\ ~IsVariant(nodes, last.this)) =>
        /\ last.err = "none"
        /\ last.prev # None => last.res = last.prev
        /\ last.cat = << >> => last.res = RootId

-----------------------------------------------------------------------------
(* C12 *)

\* C12: getChild on an input that normalizes to the empty list, with no
\* properties, ends normally, returns the receiver itself and creates no
\* logger.
C12_EmptySubcategoryReturnsSelf ==
    (last.op = "getChild" /\ ~last.bound /\ last.sub = << >>) =>
        /\ last.err = "none"
        /\ last.res = last.this
        /\ last.made = 0

-----------------------------------------------------------------------------
(* C13 *)

\* C13: the logger returned by getChild(s, p) with properties p supplied has
\* the receiver's bound properties overlaid with p, whether s is empty or
\* not.
C13_ChildCarriesSuppliedProperties ==
    (last.op = "getChild" /\ last.bound /\ last.err = "none") =>
        nodes[last.res].properties =
            mergeProperties(nodes[last.this].properties, last.props)

-----------------------------------------------------------------------------
(* Filter construction: filter.ts *)

\* A FilterLike value that is a level (or null) rather than a function.
Lvl(l) == [type |-> "like", arg |-> l]

ValidLevel(level) == \E i \in 1..Len(levelsOrder) : levelsOrder[i] = level

\* toFilter(filter): a function is returned as it is; a level goes through
\* getLevelFilter, whose getLevelIndex(level) throws TypeError for a level
\* outside the scale (null and "debug" are answered before the lookup).
toFilter(f) ==
    IF f.type # "like" THEN [val |-> f, err |-> "none"]
    ELSE IF f.arg \in {"null", "debug"} \/ ValidLevel(f.arg)
    THEN [val |-> LevelFilter(f.arg), err |-> "none"]
    ELSE [val |-> f, err |-> "TypeError"]

-----------------------------------------------------------------------------
(* Configuration: config.ts *)

consoleSink == "console"

\* The policy is left as it is.
LoggerResetKeepPolicy(logger) ==
    [logger EXCEPT !.sinks = << >>, !.filters = << >>, !.propTransformers = << >>]

\* LoggerImpl.reset()
LoggerReset(logger) ==
    [logger EXCEPT !.sinks = << >>, !.parentSinks = "inherit",
                   !.filters = << >>, !.propTransformers = << >>]

\* Only the receiver is reset, not the loggers below it.
resetOnlySelf(ns, n) == [ns EXCEPT ![n] = LoggerReset(@)]

\* LoggerImpl.resetDescendants(): the receiver and every logger its children
\* maps still lead to.
resetDescendants(ns, n) ==
    [i \in 1..Len(ns) |-> IF i \in LiveFrom(ns, n) THEN LoggerReset(ns[i]) ELSE ns[i]]

\* reset() of config.ts
reset(ns) == [nodes |-> resetDescendants(ns, RootId), configured |-> FALSE]

\* Config.sinks and Config.filters: what each identifier names.
SinkTable == [a |-> "s1", b |-> "s2"]
FilterTable == [f |-> PeekProps, w |-> Lvl("warning")]

\* One entry of Config.loggers; level "undefined" is an absent level.
LoggerConfig(category, sinks, level, filters) ==
    [category |-> category, sinks |-> sinks, level |-> level, filters |-> filters]

\* The test of configure for an entry that configures the meta logger or
\* one of its ancestors; a string category has the length of the string.
IsMetaCategory(category) ==
    IF category.t = "str" THEN category.v = ""
    ELSE \/ Len(category.items) = 0
         \/ Len(category.items) = 1 /\ category.items[1] = Str("logtape")
         \/ /\ Len(category.items) = 2
            /\ category.items[1] = Str("logtape")
            /\ category.items[2] = Str("meta")

\* The failure exits of configure: reset(), then throw.
Misconfigured(ns, error) ==
    [nodes |-> reset(ns).nodes, configured |-> reset(ns).configured, err |-> error]

\* for (const sinkId of cfg.sinks ?? []) ...
RECURSIVE pushSinks(_, _, _, _)
pushSinks(ns, logger, ids, i) ==
    IF i > Len(ids) THEN [nodes |-> ns, configured |-> TRUE, err |-> "none"]
    ELSE IF ids[i] \notin DOMAIN SinkTable
    THEN Misconfigured(ns, "ConfigError: Sink not found")
    ELSE pushSinks([ns EXCEPT ![logger].sinks = Append(@, SinkTable[ids[i]])],
                   logger, ids, i + 1)

\* if (cfg.level !== undefined) logger.filters.push(toFilter(cfg.level))
pushLevel(ns, logger, level) ==
    IF level = "undefined" THEN [nodes |-> ns, configured |-> TRUE, err |-> "none"]
    ELSE IF toFilter(Lvl(level)).err # "none"
    THEN [nodes |-> ns, configured |-> TRUE, err |-> toFilter(Lvl(level)).err]
    ELSE [nodes |-> [ns EXCEPT ![logger].filters = Append(@, toFilter(Lvl(level)).val)],
          configured |-> TRUE, err |-> "none"]

\* for (const filterId of cfg.filters ?? []) ...
RECURSIVE pushFilters(_, _, _, _)
pushFilters(ns, logger, ids, i) ==
    IF i > Len(ids) THEN [nodes |-> ns, configured |-> TRUE, err |-> "none"]
    ELSE IF ids[i] \notin DOMAIN FilterTable
    THEN Misconfigured(ns, "ConfigError: Filter not found")
    ELSE IF toFilter(FilterTable[ids[i]]).err # "none"
    THEN [nodes |-> ns, configured |-> TRUE, err |-> toFilter(FilterTable[ids[i]]).err]
    ELSE pushFilters([ns EXCEPT ![logger].filters =
                         Append(@, toFilter(FilterTable[ids[i]]).val)],
                     logger, ids, i + 1)

\* What a sink does with the record of meta.info: the console sink and the
\* sinks of the configuration take it and return.
ConfigureBehaviours ==
    [s \in Sinks \cup {consoleSink} |-> "ok"]

\* meta.info("LogTape loggers are configured. ...", {...})
ConfiguredRecord ==
    [ key |-> << >>, this |-> metaLogger, category |-> metaLoggerCategory,
      level |-> "info", kind |-> "_log",
      rawMessage |-> "LogTape loggers are configured.",
      propsArg |-> [fn |-> FALSE,
                    val |-> Obj([k \in {"dismissLevel"} |-> "info"])],
      cb |-> "none", tpl |-> << >>, values |-> << >> ]

MetaInfo(ns, e) ==
    [nodes |-> ns, configured |-> TRUE, err |-> e.err, trace |-> e.st.trace]

\* meta.info(...) on the configured tree.
informMeta(ns) ==
    MetaInfo(ns, emit([ns |-> ns, beh |-> ConfigureBehaviours], metaLogger,
                      ConfiguredRecord, {}, EmptyRun, 0))

\* The end of configure: the console sink for a meta logger no entry has
\* configured, then the message to the meta logger.
configureMeta(ns, metaConfigured) ==
    informMeta(IF metaConfigured THEN ns
               ELSE [ns EXCEPT ![metaLogger].sinks = Append(@, consoleSink)])

RECURSIVE configureLoggers(_, _, _, _)

\* After the loop over cfg.filters: the next entry.
afterFilters(r, loggers, i, metaConfigured) ==
    IF r.err # "none" THEN r
    ELSE configureLoggers(r.nodes, loggers, i + 1, metaConfigured)

\* After the push of cfg.level: the loop over cfg.filters.
afterLevel(r, logger, loggers, i, metaConfigured) ==
    IF r.err # "none" THEN r
    ELSE afterFilters(pushFilters(r.nodes, logger, loggers[i].filters, 1),
                      loggers, i, metaConfigured)

\* After the loop over cfg.sinks: the push of cfg.level.
afterSinks(r, logger, loggers, i, metaConfigured) ==
    IF r.err # "none" THEN r
    ELSE afterLevel(pushLevel(r.nodes, logger, loggers[i].level),
                    logger, loggers, i, metaConfigured)

\* const logger = LoggerImpl.getLogger(cfg.category), then its sinks.
configureLogger(r, loggers, i, metaConfigured) ==
    IF r.err # "none" THEN [nodes |-> r.nodes, configured |-> TRUE, err |-> r.err]
    ELSE afterSinks(pushSinks(r.nodes, r.res, loggers[i].sinks, 1),
                    r.res, loggers, i, metaConfigured)

\* for (const cfg of config.loggers) ..., from entry i on, then the meta
\* logger.
configureLoggers(ns, loggers, i, metaConfigured) ==
    IF i > Len(loggers) THEN configureMeta(ns, metaConfigured)
    ELSE configureLogger(getLogger(ns, loggers[i].category), loggers, i,
                         metaConfigured \/ IsMetaCategory(loggers[i].category))

\* The guard is not looked at: every call starts over.
configureAlways(ns, conf, config) ==
    configureLoggers(resetDescendants(ns, RootId), config.loggers, 1, FALSE)

\* configure(config)
configure(ns, conf, config) ==
    IF conf /\ ~config.reset
    THEN [nodes |-> ns, configured |-> conf, err |-> "ConfigError: Already configured"]
    ELSE configureLoggers(resetDescendants(ns, RootId), config.loggers, 1, FALSE)

-----------------------------------------------------------------------------
(* The specification of configuration *)

Config(r, loggers) == [reset |-> r, loggers |-> loggers]

\* The entries an application writes: loggers of the application and of the
\* library, with sinks and filters the configuration has or lacks.
Entries ==
    { <<LoggerConfig(foo, <<"a">>, "undefined", << >>)>>,
      <<LoggerConfig(Arr(<< >>), <<"b">>, "warning", <<"f">>)>>,
      <<LoggerConfig(Arr(<<Str("logtape")>>), <<"b">>, "undefined", << >>)>>,
      <<LoggerConfig(Str("logtape"), <<"b">>, "undefined", << >>)>>,
      <<LoggerConfig(foo, <<"a">>, "info", << >>),
        LoggerConfig(Arr(<<foo, bar>>), <<"missing">>, "undefined", << >>)>>,
      <<LoggerConfig(Arr(<< >>), <<"b">>, "undefined", <<"w">>),
        LoggerConfig(foo, <<"a">>, "null", <<"missing">>)>>,
      <<LoggerConfig(foo, <<"a">>, "trace", << >>)>> }

Configs == {Config(r, e) : r \in BOOLEAN, e \in Entries}

\* The dispose hooks configure and reset call, in order: neither keeps the
\* sinks and filters of the configuration it replaces, and neither calls a
\* hook of the sinks and filters it takes off the loggers.
DisposeCalls(ns) == << >>

ConfigureDone(config, r) ==
    /\ Len(r.nodes) <= MaxNodes
    /\ nodes' = r.nodes
    /\ configured' = r.configured
    /\ last' = [ op |-> "configure", reset |-> config.reset, err |-> r.err,
                 active |-> configured, disposed |-> DisposeCalls(nodes) ]
    /\ UNCHANGED <<held, seen, rotating>>

ConfigureCall(config) == ConfigureDone(config, configure(nodes, configured, config))

ResetCall ==
    /\ nodes' = reset(nodes).nodes
    /\ configured' = reset(nodes).configured
    /\ last' = [op |-> "reset", disposed |-> DisposeCalls(nodes)]
    /\ UNCHANGED <<held, seen, rotating>>

NextConfig ==
    \/ \E c \in Configs : ConfigureCall(c)
    \/ ResetCall
    \/ GetLogger(foo)
    \/ \E n \in App : AddSink(n, "s1")
    \/ \E n \in App : SetOverride(n)
    \/ Release

SpecConfig == Init /\ [][NextConfig]_vars

-----------------------------------------------------------------------------
(* The specification of configured loggers over their lifetime *)

NextLifetime ==
    \/ \E c \in Configs : ConfigureCall(c)
    \/ ResetCall
    \/ GetLogger(foo)
    \/ \E n \in App : GetChild(n, Str("logtape"), Undefined)
    \/ \E p \in PropInputs \ {Undefined} : With(RootId, p)
    \/ \E n \in App : AddSink(n, "s1")
    \/ Release
    \/ \E n \in 1..Len(nodes) : Collect(n)

SpecLifetime == Init /\ [][NextLifetime]_vars

-----------------------------------------------------------------------------
(* The effective configuration of a logger *)

AllLevels == {levelsOrder[i] : i \in 1..Len(levelsOrder)}

\* A category list written as the argument of getLogger.
CategoryOf(cat) == Arr([i \in 1..Len(cat) |-> Str(cat[i])])

\* What filter answers at logger n for a record of each level, logged with
\* properties or as a template.
Decisions(ns, n) ==
    [c \in AllLevels \X {"props", "template"} |->
        filter([ns |-> ns, beh |-> ConfigureBehaviours], n,
               MakeRecord(ns, n, c[1], c[2]), EmptyRun).res]

\* The sinks and the filter decisions of the logger a lookup has returned.
Resolved(r) ==
    [sinks |-> getSinks(r.nodes, r.res), decisions |-> Decisions(r.nodes, r.res)]

-----------------------------------------------------------------------------
(* C11 *)

\* C11: the logger N.getChild(s) returns for a non-empty s resolves the same
\* sinks and the same filter decisions as the logger getLogger returns for
\* the category of N followed by s.
C11_GetChildIsGetLogger ==
    (last.op = "getChild" /\ last.sub # << >> /\ last.err = "none") =>
        Resolved([nodes |-> nodes, res |-> last.res])
            = Resolved(getLogger(nodes, CategoryOf(last.cat)))

-----------------------------------------------------------------------------
(* C14 *)

\* The categories the configurations and the application give sinks and
\* filters to.
ConfiguredCategories == {foo, Arr(<<foo, bar>>), Arr(<<Str("logtape")>>)}

\* C14: a step of the collector changes, for no category, the sinks and the
\* filter decisions of the logger getLogger returns for it.
C14_ConfigurationSurvivesCollection ==
    [][(\E n \in 1..Len(nodes) : Collect(n)) =>
          \A c \in ConfiguredCategories :
              Resolved(getLogger(nodes', c)) = Resolved(getLogger(nodes, c))]_vars

-----------------------------------------------------------------------------
(* C15 *)

\* The nearest logger from n up to the root whose filter list is not empty;
\* the root when there is none.
RECURSIVE Decider(_, _)
Decider(ns, n) ==
    IF ns[n].filters # << >> \/ ns[n].parent = None THEN n
    ELSE Decider(ns, ns[n].parent)

\* The filter calls made for the record with the given key, in order.
FilterRuns(key) == Select(Trace, LAMBDA ev : ev.e = "filter" /\ ev.key = key)

\* Every filter call for the record returned true.
AllPassed(key) ==
    \A j \in 1..Len(FilterRuns(key)) :
        FilterRuns(key)[j].res /\ FilterRuns(key)[j].err = "none"

\* The filter calls are those of the list fs of logger d, in order from the
\* first, ending with the list or at the first call that did not return true.
DecidedBy(key, d, fs) ==
    /\ Len(FilterRuns(key)) <= Len(fs)
    /\ \A j \in 1..Len(FilterRuns(key)) :
          /\ FilterRuns(key)[j].node = d
          /\ FilterRuns(key)[j].i = j
          /\ j < Len(FilterRuns(key)) =>
                (FilterRuns(key)[j].res /\ FilterRuns(key)[j].err = "none")
    /\ Len(FilterRuns(key)) < Len(fs) => ~AllPassed(key)
    /\ Len(fs) > 0 => Len(FilterRuns(key)) > 0

\* C15: the filters called for a record emitted at N are those of the nearest
\* logger from N up to the root with a non-empty list, in registration order
\* up to the first that does not return true, and no other; the record goes
\* on to the sinks of N iff every call returned true.
C15_NearestFilterListDecides ==
    IsLog =>
        \A key \in Keys \cup {TopKey} :
            /\ DecidedBy(key, Decider(nodes, Owner(key)),
                         nodes[Decider(nodes, Owner(key))].filters)
            /\ Deliveries(key) # << >> => AllPassed(key)
            /\ (key = TopKey /\ AllPassed(key)
                  /\ getSinks(nodes, Owner(key)) # << >>) =>
                   Deliveries(key) # << >>

\* A record rejected by the first of two filters of its own logger, while
\* the root has a filter too.
C15_Witness ==
    /\ IsLog
    /\ last.this # RootId
    /\ Len(nodes[last.this].filters) = 2
    /\ nodes[RootId].filters # << >>
    /\ Len(FilterRuns(TopKey)) = 1
    /\ ~FilterRuns(TopKey)[1].res

-----------------------------------------------------------------------------
(* The specification of sink resolution *)

\* [...logger.getSinks()]
GetSinksCall(n) ==
    /\ last' = [op |-> "getSinks", this |-> n, res |-> getSinks(nodes, n)]
    /\ UNCHANGED <<nodes, held, seen, configured, rotating>>

\* The loggers on the path from the root to the meta logger and below it.
Chain == Ancestors(nodes, IF held = None THEN metaLogger ELSE held)

NextSinks ==
    \/ GetChild(metaLogger, bar, Undefined)
    \/ \E n \in Chain, s \in Sinks : AddSink(n, s)
    \/ \E n \in Chain : SetOverride(n)
    \/ \E n \in Chain : GetSinksCall(n)

SpecSinks == Init /\ [][NextSinks]_vars

-----------------------------------------------------------------------------
(* C16 *)

\* The loggers from the root down to n.
RECURSIVE PathTo(_, _)
PathTo(ns, n) ==
    IF ns[n].parent = None THEN <<n>> ELSE Append(PathTo(ns, ns[n].parent), n)

\* The position on the path of the last logger with policy override; the
\* first position when there is none.
OverrideStart(ns, path) ==
    LET over == {j \in 1..Len(path) : ns[path[j]].parentSinks = "override"}
    IN  IF over = {} THEN 1 ELSE CHOOSE j \in over : \A k \in over : k <= j

\* The own sink lists of the loggers path[j..], one after the other.
RECURSIVE OwnSinksFrom(_, _, _)
OwnSinksFrom(ns, path, j) ==
    IF j > Len(path) THEN << >>
    ELSE ns[path[j]].sinks \o OwnSinksFrom(ns, path, j + 1)

\* C16: getSinks(N) is the own sink lists, from the top down, of the loggers
\* on the path from the nearest logger with policy override (the root when
\* there is none) to N, each in registration order, nothing removed.
C16_SinksFromNearestOverride ==
    last.op = "getSinks" =>
        last.res = OwnSinksFrom(nodes, PathTo(nodes, last.this),
                                OverrideStart(nodes, PathTo(nodes, last.this)))

\* The sinks of a logger that inherits from an overriding parent, while the
\* root has a sink too: the parent's sinks only.
C16_Witness ==
    /\ last.op = "getSinks"
    /\ nodes[last.this].parent \notin {None, RootId}
    /\ nodes[last.this].parentSinks = "inherit"
    /\ nodes[nodes[last.this].parent].parentSinks = "override"
    /\ nodes[nodes[last.this].parent].sinks # << >>
    /\ nodes[RootId].sinks # << >>
    /\ last.res = nodes[nodes[last.this].parent].sinks

-----------------------------------------------------------------------------
(* C17 *)

\* The sinks the logger resolves: its own and those it inherits.
ResolvedSinks(ns, n) == OwnSinksFrom(ns, PathTo(ns, n), OverrideStart(ns, PathTo(ns, n)))

\* C17: a record emitted at N is judged by the filters of the logger that
\* decides for N and by no other; when they accept it, it is handed to every
\* sink N resolves, those inherited from ancestors included, in order, and
\* when they do not, to none.
C17_AcceptedReachesInheritedSinks ==
    IsLog =>
        /\ \A j \in 1..Len(FilterRuns(TopKey)) :
              FilterRuns(TopKey)[j].node = Decider(nodes, last.this)
        /\ Deliveries(TopKey) =
              IF AllPassed(TopKey) THEN ResolvedSinks(nodes, last.this) ELSE << >>

\* A record of level info accepted by the filter of its own logger reaches
\* the sink of the root, whose filter at warning would reject it.
C17_Witness ==
    /\ IsLog
    /\ last.this # RootId
    /\ last.level = "info"
    /\ nodes[last.this].filters # << >>
    /\ nodes[last.this].sinks = << >>
    /\ nodes[RootId].filters = <<LevelFilter("warning")>>
    /\ ~getLevelFilter("warning", last.level)
    /\ nodes[RootId].sinks # << >>
    /\ Deliveries(TopKey) = nodes[RootId].sinks

-----------------------------------------------------------------------------
(* The specification of filter construction *)

\* The arguments of toFilter: the levels, null, a string that is no level,
\* and filter functions.
FilterLikes ==
    {Lvl(l) : l \in AllLevels \cup {"null", "trace"}} \cup {PeekProps, PeekMsg}

\* toFilter(f)
ToFilterCall(f) ==
    /\ last' = [op |-> "toFilter", arg |-> f,
                res |-> toFilter(f).val, err |-> toFilter(f).err]
    /\ UNCHANGED <<nodes, held, seen, configured, rotating>>

Verdict(f, level, call, r) ==
    [op |-> "apply", filter |-> f, level |-> level, call |-> call,
     res |-> r.res, err |-> r.err]

\* The filter just built is called with the record of a log call.
ApplyCall(level, call) ==
    /\ last.op = "toFilter" /\ last.err = "none"
    /\ last' = Verdict(last.res, level, call,
                       EvalFilter([ns |-> nodes, beh |-> ConfigureBehaviours],
                                  last.res,
                                  MakeRecord(nodes, RootId, level, call), EmptyRun))
    /\ UNCHANGED <<nodes, held, seen, configured, rotating>>

NextFilter ==
    \/ \E f \in FilterLikes : ToFilterCall(f)
    \/ \E l \in AllLevels, c \in CallKinds : ApplyCall(l, c)

SpecFilter == Init /\ [][NextFilter]_vars

-----------------------------------------------------------------------------
(* C18 *)

\* The scale of the six levels, from the least to the most severe.
Severity ==
    [debug |-> 1, info |-> 2, warning |-> 3, error |-> 4, critical |-> 5, fatal |-> 6]

\* C18: toFilter hands back a function as it is, builds a filter for each of
\* the six levels and for null, and throws TypeError for any other threshold;
\* the filter built for threshold t accepts a record of level l iff l is at
\* least as severe as t, and the one built for null accepts none.
C18_LevelFilterFollowsScale ==
    /\ last.op = "toFilter" =>
          IF last.arg.type # "like"
          THEN last.err = "none" /\ last.res = last.arg
          ELSE last.err = IF last.arg.arg \in DOMAIN Severity \cup {"null"}
                          THEN "none" ELSE "TypeError"
    /\ (last.op = "apply" /\ last.filter.type = "level") =>
          /\ last.err = "none"
          /\ last.res = (/\ last.filter.arg # "null"
                         /\ Severity[last.level] >= Severity[last.filter.arg])

\* A filter built for the threshold warning has accepted a record of level
\* error.
C18_Witness ==
    /\ last.op = "apply"
    /\ last.filter = LevelFilter("warning")
    /\ last.level = "error"
    /\ last.res

-----------------------------------------------------------------------------
(* C19 *)

AlreadyConfigured == "ConfigError: Already configured"

-----------------------------------------------------------------------------
(* C20 *)

\* Some entry names a sink or a filter the configuration does not have.
MissingName(loggers) ==
    \E i \in 1..Len(loggers) :
        \/ \E j \in 1..Len(loggers[i].sinks) :
              loggers[i].sinks[j] \notin DOMAIN SinkTable
        \/ \E j \in 1..Len(loggers[i].filters) :
              loggers[i].filters[j] \notin DOMAIN FilterTable

\* Every entry has a level of the scale, null, or none.
ValidLevels(loggers) ==
    \A i \in 1..Len(loggers) :
        loggers[i].level \in AllLevels \cup {"null", "undefined"}

NotFound == {"ConfigError: Sink not found", "ConfigError: Filter not found"}

\* C20: a call of configure that gets to an entry naming a missing sink or
\* filter throws ConfigError; after it every logger reachable from the root
\* has no sink and no filter, no configuration is active, and no configure
\* is refused as already configured.
C20_MisconfigurationLeavesNothing ==
    [][\A c \in Configs :
          (/\ ~configured \/ c.reset
           /\ MissingName(c.loggers) /\ ValidLevels(c.loggers)
           /\ ConfigureCall(c)) =>
              /\ last'.err \in NotFound
              /\ \A n \in LiveFrom(nodes', RootId) :
                    nodes'[n].sinks = << >> /\ nodes'[n].filters = << >>
              /\ ~configured'
              /\ \A d \in Configs :
                    configure(nodes', configured', d).err # AlreadyConfigured]_vars

\* configure has thrown for a missing filter after it had given sinks and
\* filters to the root and to a logger of the application.
C20_Witness ==
    /\ last.op = "configure"
    /\ last.err = "ConfigError: Filter not found"
    /\ ~configured
    /\ \E n \in LiveFrom(nodes, RootId) :
          nodes[n].category = <<"foo">> /\ nodes[n].sinks = << >>

-----------------------------------------------------------------------------
(* C21 *)

\* The category an entry names, a string s read as the list of s alone.
EntryCategory(category) ==
    IF category.t = "str" THEN <<category.v>>
    ELSE [i \in 1..Len(category.items) |-> category.items[i].v]

\* Some entry names the meta logger or one of its ancestors.
NamesMeta(loggers) ==
    \E i \in 1..Len(loggers) :
        EntryCategory(loggers[i].category)
            \in {<< >>, <<"logtape">>, <<"logtape", "meta">>}

HasConsoleSink(ns) ==
    \E j \in 1..Len(ns[metaLogger].sinks) : ns[metaLogger].sinks[j] = consoleSink

\* C21: after a configure that ends normally the meta logger has the console
\* sink iff no entry of the configuration names the root, "logtape" or the
\* meta logger, a string category counting as the list of that string.
C21_ConsoleSinkIffMetaNotConfigured ==
    [][\A c \in Configs :
          (ConfigureCall(c) /\ last'.err = "none") =>
              (HasConsoleSink(nodes') <=> ~NamesMeta(c.loggers))]_vars

-----------------------------------------------------------------------------
(* The specification of resetting a subtree *)

\* logger.resetDescendants(), called by the application
ResetDescendantsCall(n) ==
    /\ nodes' = resetDescendants(nodes, n)
    /\ last' = [op |-> "resetDescendants", this |-> n,
                cleared |-> SumRegs(nodes, 1) - SumRegs(resetDescendants(nodes, n), 1)]
    /\ UNCHANGED <<held, seen, configured, rotating>>

\* The loggers the application configures and resets: the logger it holds
\* and those above it.
Targets == Ancestors(nodes, IF held = None THEN RootId ELSE held)

NextReset ==
    \/ GetLogger(Arr(<<foo, bar>>))
    \/ \E p \in PropInputs \ {Undefined} : With(RootId, p)
    \/ \E n \in Targets : AddSink(n, "s1")
    \/ \E n \in Targets : AddFilter(n, LevelFilter("warning"))
    \/ \E n \in Targets : AddTransformer(n, "tag")
    \/ \E n \in Targets : SetOverride(n)
    \/ \E n \in Targets : ResetDescendantsCall(n)

SpecReset == Init /\ [][NextReset]_vars

-----------------------------------------------------------------------------
(* C22 *)

\* Logger i is in the children map of its parent.
Linked(ns, i) ==
    \/ ns[i].parent = None
    \/ \E c \in Names : ns[ns[i].parent].children[c] = i

\* The loggers from i up to n, n excluded; empty when n is not above i.
RECURSIVE UpTo(_, _, _)
UpTo(ns, i, n) ==
    IF i = n \/ i = None THEN {} ELSE {i} \cup UpTo(ns, ns[i].parent, n)

\* Logger n and the loggers reached from it through children maps.
Subtree(ns, n) ==
    {i \in 1..Len(ns) : n \in Ancestors(ns, i) /\ \A k \in UpTo(ns, i, n) : Linked(ns, k)}

Unconfigured(logger) ==
    /\ logger.sinks = << >> /\ logger.filters = << >>
    /\ logger.propTransformers = << >> /\ logger.parentSinks = "inherit"

\* C22: resetDescendants on logger N leaves N and every logger below it
\* without sinks, filters and property transformers and with the policy
\* inherit; it leaves every other logger as it was, and parents, children,
\* categories and bound properties of all loggers as they were, so that
\* getLogger of N's category returns the logger it returned before.
C22_ResetClearsSubtreeOnly ==
    [][\A n \in {k \in 1..Len(nodes) : last'.op = "resetDescendants" /\ last'.this = k} :
          ResetDescendantsCall(n) =>
              /\ Len(nodes') = Len(nodes)
              /\ \A i \in 1..Len(nodes) :
                    /\ nodes'[i].parent = nodes[i].parent
                    /\ nodes'[i].children = nodes[i].children
                    /\ nodes'[i].category = nodes[i].category
                    /\ nodes'[i].properties = nodes[i].properties
                    /\ i \in Subtree(nodes, n) => Unconfigured(nodes'[i])
                    /\ i \notin Subtree(nodes, n) => nodes'[i] = nodes[i]
              /\ getLogger(nodes', CategoryOf(nodes[n].category)).res
                    = getLogger(nodes, CategoryOf(nodes[n].category)).res]_vars

\* A logger with a child has been reset and has lost registrations, while
\* the root keeps a sink.
C22_Witness ==
    /\ last.op = "resetDescendants"
    /\ last.this # RootId
    /\ last.cleared >= 2
    /\ \E i \in 1..Len(nodes) : nodes[i].parent = last.this /\ Linked(nodes, i)
    /\ nodes[RootId].sinks # << >>

-----------------------------------------------------------------------------
(* C23 *)

\* The sinks of the configurations that have a dispose hook.
Disposable == {SinkTable[id] : id \in DOMAIN SinkTable}

\* C23: when reset() or a configure with the reset flag replaces an active
\* configuration, every sink with a dispose hook that the configuration had
\* put on a logger is disposed exactly once; a configure refused as already
\* configured disposes nothing.
C23_ReplacedSinksDisposedOnce ==
    [][\A c \in Configs :
          /\ (configured /\ (ResetCall \/ (c.reset /\ ConfigureCall(c)))) =>
                \A s \in Disposable \cap Registered(nodes) :
                    Cardinality({j \in 1..Len(last'.disposed) :
                                    last'.disposed[j] = s}) = 1
          /\ (configured /\ ~c.reset /\ ConfigureCall(c)) =>
                last'.disposed = << >>]_vars

-----------------------------------------------------------------------------
(* The rotating file sink *)

MaxWrites == 4

\* The values of the option maxSize, and the sizes of rendered chunks, in
\* bytes: some chunks alone are longer than maxSize.
MaxSizeOptions == {2, 3}
ChunkSizes == 1..4

\* The files are P (index 0) and P.1, P.2, ...; a file holds bytes, each
\* byte marked with the number of the write it came from.
Indices == 0..MaxWrites
NoFile == [exists |-> FALSE, data |-> << >>]
EmptyFile == [exists |-> TRUE, data |-> << >>]

\* getRotatingFileSink(path, {maxSize}) on a path that holds nothing yet
getRotatingFileSink(maxSize) ==
    [ open |-> TRUE, maxSize |-> maxSize,
      fs |-> [k \in Indices |-> IF k = 0 THEN EmptyFile ELSE NoFile],
      written |-> << >> ]

\* The chunk the formatter renders for write number id.
Chunk(id, size) == [i \in 1..size |-> id]

\* The highest index of a rotated file; 0 when there is none.
Highest(fs) ==
    CHOOSE k \in Indices :
        /\ k = 0 \/ fs[k].exists
        /\ \A j \in Indices : (j > k) => ~fs[j].exists

\* renameSync(from, to): what was at to is replaced.
rename(fs, from, to) == [fs EXCEPT ![to] = fs[from], ![from] = NoFile]

\* The renames are made from P.1 upwards.
RECURSIVE renameUpFrom(_, _, _)
renameUpFrom(fs, j, k) ==
    IF j > k THEN fs ELSE renameUpFrom(rename(fs, j, j + 1), j + 1, k)

renameUp(fs, k) == renameUpFrom(fs, 1, k)

\* P.k to P.(k+1) for k from the highest existing index down to 1.
RECURSIVE renameDown(_, _)
renameDown(fs, k) ==
    IF k < 1 THEN fs ELSE renameDown(rename(fs, k, k + 1), k - 1)

\* The rename chain, then P to P.1, then a fresh empty P.
rotate(fs) ==
    [rename(renameDown(fs, Highest(fs)), 0, 1) EXCEPT ![0] = EmptyFile]

\* The emptiness of the current file is not looked at.
shouldRotateAlsoEmpty(s, size) == Len(s.fs[0].data) + size > s.maxSize

\* The current file is not empty and would grow beyond maxSize.
shouldRotate(s, size) ==
    Len(s.fs[0].data) > 0 /\ Len(s.fs[0].data) + size > s.maxSize

\* The file is written from its start.
appendFromStart(fs, bytes) == [fs EXCEPT ![0].data = bytes]

\* The chunk is appended to P.
append(fs, bytes) == [fs EXCEPT ![0].data = @ \o bytes]

\* write(record), the record rendering to a chunk of the given size.
write(s, size) ==
    [s EXCEPT !.fs = append(IF shouldRotate(s, size) THEN rotate(s.fs) ELSE s.fs,
                            Chunk(Len(s.written) + 1, size)),
              !.written = Append(@, size)]

OpenCall(maxSize) ==
    /\ rotating = NoFileSink
    /\ rotating' = getRotatingFileSink(maxSize)
    /\ last' = [op |-> "getRotatingFileSink", maxSize |-> maxSize]
    /\ UNCHANGED <<nodes, held, seen, configured>>

WriteCall(size) ==
    /\ rotating.open
    /\ Len(rotating.written) < MaxWrites
    /\ rotating' = write(rotating, size)
    /\ last' = [op |-> "write", size |-> size]
    /\ UNCHANGED <<nodes, held, seen, configured>>

NextRotating ==
    \/ \E m \in MaxSizeOptions : OpenCall(m)
    \/ \E size \in ChunkSizes : WriteCall(size)

SpecRotating == Init /\ [][NextRotating]_vars

-----------------------------------------------------------------------------
(* Reading the files *)

Existing(fs) == {k \in Indices : fs[k].exists}

\* The bytes of one write only.
OneChunk(data) == \A i \in 1..Len(data) : data[i] = data[1]

\* The files from index k down to P, one after the other.
RECURSIVE ContentsFrom(_, _)
ContentsFrom(fs, k) ==
    IF k < 0 THEN << >> ELSE fs[k].data \o ContentsFrom(fs, k - 1)

\* The chunks of the writes from number id on, one after the other.
RECURSIVE ChunksFrom(_, _)
ChunksFrom(written, id) ==
    IF id > Len(written) THEN << >>
    ELSE Chunk(id, written[id]) \o ChunksFrom(written, id + 1)

-----------------------------------------------------------------------------
(* C24 *)

\* C24: a write rotates iff the current file is not empty and its size
\* plus the size of the chunk exceeds maxSize; after the write the current
\* file is at most maxSize bytes long or holds one chunk only.
C24_RotatesIffWouldExceed ==
    [][\A size \in ChunkSizes :
          WriteCall(size) =>
              /\ (Cardinality(Existing(rotating'.fs))
                     = Cardinality(Existing(rotating.fs)) + 1)
                 <=> (/\ Len(rotating.fs[0].data) > 0
                      /\ Len(rotating.fs[0].data) + size > rotating.maxSize)
              /\ Cardinality(Existing(rotating'.fs))
                    \in {Cardinality(Existing(rotating.fs)),
                         Cardinality(Existing(rotating.fs)) + 1}
              /\ \/ Len(rotating'.fs[0].data) <= rotating.maxSize
                 \/ OneChunk(rotating'.fs[0].data)]_vars

\* After a rotation the current file holds one chunk that alone is longer
\* than maxSize.
C24_Witness ==
    /\ last.op = "write"
    /\ rotating.fs[1].exists
    /\ Len(rotating.fs[0].data) > rotating.maxSize
    /\ OneChunk(rotating.fs[0].data)

-----------------------------------------------------------------------------
(* C25 *)

\* C25: the chunk of the last write is whole at the end of the current file
\* and in no other file; the rotated files from the highest index down to
\* P.1, followed by P, hold the chunks of all writes in write order.
C25_ChunksWholeAndInOrder ==
    (rotating.open /\ last.op = "write") =>
        /\ ContentsFrom(rotating.fs, Highest(rotating.fs))
              = ChunksFrom(rotating.written, 1)
        /\ Len(rotating.fs[0].data) >= last.size
        /\ SubSeq(rotating.fs[0].data,
                  Len(rotating.fs[0].data) - last.size + 1,
                  Len(rotating.fs[0].data))
              = Chunk(Len(rotating.written), last.size)
        /\ \A k \in Indices \ {0} : \A i \in 1..Len(rotating.fs[k].data) :
              rotating.fs[k].data[i] # Len(rotating.written)

\* Four writes have left three files.
C25_Witness ==
    /\ last.op = "write"
    /\ Len(rotating.written) >= 4
    /\ Highest(rotating.fs) >= 2
    /\ Len(rotating.fs[0].data) > last.size

-----------------------------------------------------------------------------
(* C26 *)

-----------------------------------------------------------------------------
(* getCategoryList as a function of its argument *)

MaxItems == 2

Leaves == {foo, bar, empty, Null, Undef}

ArraysOf(S, n) == {Arr(xs) : xs \in UNION {[1..k -> S] : k \in 0..n}}

\* Strings, absent values, arrays of them, and arrays that hold the shorter
\* of those arrays as well.
MaybeCategories ==
    Leaves \cup ArraysOf(Leaves, MaxItems)
           \cup ArraysOf(Leaves \cup ArraysOf(Leaves, MaxItems - 1), MaxItems)

GetCategoryListCall(category) ==
    /\ last' = [op |-> "getCategoryList", input |-> category,
                res |-> getCategoryList(category)]
    /\ UNCHANGED <<nodes, held, seen, configured, rotating>>

NextCategory == \E category \in MaybeCategories : GetCategoryListCall(category)

SpecCategory == Init /\ [][NextCategory]_vars

\* The non-empty string leaves of a value, left to right, depth first.
RECURSIVE StringLeaves(_)
StringLeaves(x) ==
    IF x.t = "str" THEN (IF x.v = "" THEN << >> ELSE <<x.v>>)
    ELSE IF x.t # "arr" \/ x.items = << >> THEN << >>
    ELSE StringLeaves(Head(x.items)) \o StringLeaves(Arr(Tail(x.items)))

-----------------------------------------------------------------------------
(* C27 *)

\* C27: getCategoryList returns the string leaves of its argument in
\* left-to-right depth-first order without the empty strings and the absent
\* values, so every element of the result is a non-empty string.
C27_OnlyNonEmptyLeaves ==
    (last.op = "getCategoryList") =>
        /\ last.res = StringLeaves(last.input)
        /\ \A i \in 1..Len(last.res) : last.res[i] # ""

-----------------------------------------------------------------------------
(* renderMessage as a function of its arguments *)

MaxTemplate == 3

Literals == {"x", "y"}
Values == {"1", "2"}

Templates == UNION {[1..n -> Literals] : n \in 1..MaxTemplate}
ValueLists == UNION {[1..n -> Values] : n \in 0..MaxTemplate}

RenderMessageCall(template, values) ==
    /\ last' = [op |-> "renderMessage", template |-> template,
                values |-> values, res |-> renderMessage(template, values)]
    /\ UNCHANGED <<nodes, held, seen, configured, rotating>>

NextRender ==
    \E template \in Templates, values \in ValueLists :
        RenderMessageCall(template, values)

SpecRender == Init /\ [][NextRender]_vars

-----------------------------------------------------------------------------
(* C28 *)

\* C28: for n >= 1 literals and n-1 values renderMessage returns a sequence
\* of length 2n-1 with the literals at positions 1, 3, ... and the values at
\* positions 2, 4, ..., both in their given order.
C28_LiteralsAndValuesInterleaved ==
    (/\ last.op = "renderMessage"
     /\ Len(last.values) = Len(last.template) - 1) =>
        /\ Len(last.res) = 2 * Len(last.template) - 1
        /\ \A i \in 1..Len(last.template) : last.res[2 * i - 1] = last.template[i]
        /\ \A i \in 1..Len(last.values) : last.res[2 * i] = last.values[i]

\* Three literals and two values, the two values different.
C28_Witness ==
    /\ last.op = "renderMessage"
    /\ Len(last.template) = 3
    /\ Len(last.values) = 2
    /\ last.values[1] # last.values[2]
    /\ Len(last.res) = 5

-----------------------------------------------------------------------------
(* C29 *)

\* The sinks of a list that are not in the bypass set, in list order.
NotBypassed(sinks, bypass) == Select(sinks, LAMBDA s : s \notin bypass)

\* The positions in the resolved list of the sink calls for a record.
Positions(key) ==
    LET calls == Select(Trace, LAMBDA ev : ev.e = "sink" /\ ev.key = key)
    IN  [i \in 1..Len(calls) |-> calls[i].i]

Ascending(seq) == \A i, j \in 1..Len(seq) : (i < j) => seq[i] < seq[j]

\* C29: in one emit of an accepted record the sinks of the resolved list
\* that are not in the bypass set are invoked in list order, ancestors'
\* sinks before the logger's own, each occurrence once, whether or not an
\* earlier sink of the list has thrown; this holds for the record of the
\* log call and for every meta record.
C29_EverySinkInListOrder ==
    IsLog =>
        /\ AllPassed(TopKey) =>
              /\ Deliveries(TopKey) = NotBypassed(ResolvedSinks(nodes, last.this), {})
              /\ Ascending(Positions(TopKey))
        /\ \A m \in Ev("meta") :
              AllPassed(Trace[m].key) =>
                  /\ Deliveries(Trace[m].key)
                        = NotBypassed(ResolvedSinks(nodes, metaLogger), MetaBypass(m))
                  /\ Ascending(Positions(Trace[m].key))

\* The first sink of the list, inherited from the root, has thrown and the
\* logger's own sink after it has been invoked.
C29_Witness ==
    /\ IsLog
    /\ last.this # RootId
    /\ nodes[RootId].sinks # << >>
    /\ nodes[last.this].sinks # << >>
    /\ \E i, j \in SinkCalls :
          /\ i < j
          /\ Trace[i].key = TopKey /\ Trace[j].key = TopKey
          /\ Trace[i].err # "none"
          /\ Trace[i].i = 1
          /\ Trace[j].i = Len(ResolvedSinks(nodes, last.this))
          /\ Trace[j].i > 1

-----------------------------------------------------------------------------
(* propTransform as seen by its caller *)

Transformers == {"tag", "drop"}

PropTransformCall(n, rawProps) ==
    /\ last' = [op |-> "propTransform", this |-> n, raw |-> rawProps,
                res |-> propTransform(nodes, n, rawProps).val,
                ran |-> propTransform(nodes, n, rawProps).ran]
    /\ UNCHANGED <<nodes, held, seen, configured, rotating>>

NextTransform ==
    \/ GetLogger(foo)
    \/ \E n \in {RootId} \cup App, t \in Transformers : AddTransformer(n, t)
    \/ \E n \in {RootId} \cup App, p \in PropInputs : PropTransformCall(n, p)

SpecTransform == Init /\ [][NextTransform]_vars

-----------------------------------------------------------------------------
(* C30 *)

\* C30: on a logger with no property transformers propTransform returns what
\* propTransform on the parent returns for the same raw record, an absent
\* value included, and on the root the raw properties.
C30_EmptyListDelegatesToParent ==
    (/\ last.op = "propTransform"
     /\ nodes[last.this].propTransformers = << >>) =>
        last.res = IF nodes[last.this].parent = None THEN last.raw
                   ELSE propTransform(nodes, nodes[last.this].parent, last.raw).val

-----------------------------------------------------------------------------
(* C31 *)

\* The transformers ts applied one after the other, the first to props.
RECURSIVE Chained(_, _)
Chained(ts, props) ==
    IF ts = << >> THEN props
    ELSE Chained(Tail(ts), ApplyTransformer(Head(ts), props))

\* C31: on a logger with a non-empty property-transformer list
\* propTransform runs the transformers of that logger, all of them, in
\* registration order, each on the properties the one before returned, and
\* runs no transformer of another logger.
C31_OwnTransformersInOrder ==
    (/\ last.op = "propTransform"
     /\ nodes[last.this].propTransformers # << >>) =>
        /\ Len(last.ran) = Len(nodes[last.this].propTransformers)
        /\ \A i \in 1..Len(last.ran) :
              /\ last.ran[i].node = last.this
              /\ last.ran[i].t = nodes[last.this].propTransformers[i]
        /\ last.res = Chained(nodes[last.this].propTransformers, last.raw)

\* Two different transformers on a logger whose parent has one of its own.
C31_Witness ==
    /\ last.op = "propTransform"
    /\ last.this # RootId
    /\ nodes[last.this].propTransformers = <<"drop", "tag">>
    /\ nodes[nodes[last.this].parent].propTransformers # << >>
    /\ last.raw.def
    /\ last.res = Obj([k \in {"t"} |-> 1])

-----------------------------------------------------------------------------
(* Loggers with bound properties, and the records they emit *)

WithProps ==
    { Obj([k \in {"a"} |-> 1]),
      Obj([k \in {"a", "c"} |-> 2]) }

\* Every sink reads the properties and the message of the record.
AllRead == [s \in Sinks |-> "read"]

NextWith ==
    \/ GetLogger(foo)
    \/ \E n \in {RootId} \cup App, p \in WithProps : With(n, p)
    \/ AddSink(RootId, "s1")
    \/ AddTransformer(RootId, "tag")
    \/ \E n \in {RootId} \cup App, c \in CallKinds : LogCall(n, "info", c, AllRead)
    \/ Return

SpecWith == Init /\ [][NextWith]_vars

\* Properties b laid over properties a: the keys of both, those of b with
\* the value they have in b.
Overlaid(a, b) ==
    Obj([k \in (IF a.def THEN DOMAIN a.map ELSE {}) \cup DOMAIN b.map |->
           IF k \in DOMAIN b.map THEN b.map[k] ELSE a.map[k]])

\* The properties given at the call site of log.
CallSite(call) ==
    IF call \in {"props", "propsCb"} THEN Obj([k \in {"c"} |-> 1]) ELSE Obj(<< >>)

\* with(p) gives a logger of the same category whose bound properties are
\* those of the receiver overlaid with p.
WithBindsOverlay ==
    (last.op = "with") =>
        /\ nodes[last.res].category = nodes[last.this].category
        /\ nodes[last.res].parent = last.this
        /\ nodes[last.res].properties
              = Overlaid(nodes[last.this].properties, last.props)

\* The properties every sink has read from the record of the log call.
RecordProperties(expected) ==
    \A j \in SinkCalls :
        (Trace[j].key = TopKey /\ Trace[j].read) => Trace[j].props = expected

-----------------------------------------------------------------------------
(* C32 *)

\* C32 as stated: with(p) keeps the category and binds the receiver's
\* properties overlaid with p; every record the logger emits, by any of the
\* three protocols, has the bound properties overlaid with the call-site
\* properties.
C32_AsStated ==
    /\ WithBindsOverlay
    /\ IsLog =>
          RecordProperties(Overlaid(nodes[last.this].properties, CallSite(last.call)))

\* C32: with(p) keeps the category and binds the receiver's properties
\* overlaid with p; a record emitted by logLazily or logTemplate has the
\* bound properties overlaid with the call-site properties, and a record
\* emitted by _log has what the property transformers that apply to the
\* logger make of that overlay.
C32_BoundPropertiesOverlaid ==
    /\ WithBindsOverlay
    /\ IsLog =>
          RecordProperties(
              IF last.call \in {"props", "propsCb"}
              THEN Chained(EffectiveTransformers(nodes, last.this),
                           Overlaid(nodes[last.this].properties, CallSite(last.call)))
              ELSE Overlaid(nodes[last.this].properties, CallSite(last.call)))

\* A logger made by with on a logger made by with, the second binding
\* replacing a key of the first, has logged with a call-site key that
\* replaces a bound one, and a sink has read the properties.
C32_Witness ==
    /\ IsLog
    /\ last.call = "props"
    /\ last.this # RootId
    /\ nodes[nodes[last.this].parent].properties = Obj([k \in {"a"} |-> 1])
    /\ nodes[last.this].properties = Obj([k \in {"a", "c"} |-> 2])
    /\ \E j \in SinkCalls :
          /\ Trace[j].key = TopKey
          /\ Trace[j].read
          /\ Trace[j].props.def
          /\ Trace[j].props.map["a"] = 2
          /\ Trace[j].props.map["c"] = 1

-----------------------------------------------------------------------------
(* C33 *)

\* The category of logger n is that of its parent and one more segment.
OneSegmentBelowParent(ns, n) ==
    /\ Len(ns[n].category) = Len(ns[ns[n].parent].category) + 1
    /\ SubSeq(ns[n].category, 1, Len(ns[n].category) - 1)
          = ns[ns[n].parent].category

RootHasNoParent ==
    /\ nodes[RootId].category = << >>
    /\ nodes[RootId].parent = None
    /\ \A n \in 1..Len(nodes) : (n # RootId) => nodes[n].parent \in 1..Len(nodes)

-----------------------------------------------------------------------------
(* C34 *)

\* The events of the meta record about the failed sink call f, and of every
\* meta record nested in its dispatch.
AboutFailure(f) ==
    {e \in 1..Len(Trace) : IsPrefix(Append(Trace[f].key, Trace[f].i), Trace[e].key)}

\* The sink calls that follow the failed call f in the same dispatch.
LaterInList(f) ==
    {j \in SinkCalls : Trace[j].key = Trace[f].key /\ Trace[j].i > Trace[f].i}

\* C34: when a sink throws during the emit of a record, everything the meta
\* record about that failure causes (its filtering, its delivery to the
\* sinks of the meta logger, the handling of failures nested in it) happens
\* after the failed call and before the next sink of the record's list is
\* invoked; so a later sink of the list that also gets the meta record gets
\* it before the record.
C34_MetaDispatchBeforeNextSink ==
    IsLog =>
        \A f \in Thrown :
            /\ \E m \in Ev("meta") : Trace[m].key = Append(Trace[f].key, Trace[f].i)
            /\ \A e \in AboutFailure(f) :
                  /\ f < e
                  /\ \A j \in LaterInList(f) : e < j
            /\ \A j \in LaterInList(f), k \in SinkCalls :
                  (/\ Trace[k].key = Append(Trace[f].key, Trace[f].i)
                   /\ Trace[k].sink = Trace[j].sink) => k < j

\* The first sink of the list threw; the second got the meta record about
\* that and then the record.
C34_Witness ==
    /\ IsLog
    /\ \E f \in Thrown, j, k \in SinkCalls :
          /\ Trace[f].key = TopKey
          /\ Trace[f].i = 1
          /\ j \in LaterInList(f)
          /\ Trace[k].key = Append(TopKey, 1)
          /\ Trace[k].sink = Trace[j].sink
          /\ f < k /\ k < j

-----------------------------------------------------------------------------
(* What a logger resolves to, as seen by its caller *)

\* getSinks(), filter(record) and propTransform(rawRecord) of logger n, the
\* record being one of the given level made at n.
ResolveCall(n, level, rawProps) ==
    /\ last' = [op |-> "resolve", this |-> n, level |-> level, raw |-> rawProps,
                sinks |-> getSinks(nodes, n),
                pass |-> filter([ns |-> nodes, beh |-> AllRead], n,
                                MakeRecord(nodes, n, level, "props"), EmptyRun).res,
                props |-> propTransform(nodes, n, rawProps).val]
    /\ UNCHANGED <<nodes, held, seen, configured, rotating>>

NextVariant ==
    \/ GetLogger(foo)
    \/ \E n \in {RootId} \cup App, p \in PropInputs \ {Undefined} : With(n, p)
    \/ \E n \in Targets : AddSink(n, "s1")
    \/ \E n \in Targets : AddFilter(n, LevelFilter("warning"))
    \/ \E n \in Targets, t \in Transformers : AddTransformer(n, t)
    \/ \E n \in Targets : SetOverride(n)
    \/ ResetDescendantsCall(RootId)
    \/ \E n \in App, l \in LogLevels, p \in PropInputs : ResolveCall(n, l, p)

SpecVariant == Init /\ [][NextVariant]_vars

\* Logger n was made by with: it has the category of its parent.
MadeByWith(ns, n) ==
    ns[n].parent # None /\ ns[n].category = ns[ns[n].parent].category

-----------------------------------------------------------------------------
(* C35 *)

\* C35: a logger W made by L.with(p), with nothing attached to W itself,
\* resolves the sinks L resolves, gets the filter decision L gets and the
\* property-transformer result L gets, for the same record, whatever has
\* been attached to or reset on L and its ancestors since.
C35_VariantResolvesAsReceiver ==
    (/\ last.op = "resolve"
     /\ MadeByWith(nodes, last.this)
     /\ Unconfigured(nodes[last.this])) =>
        /\ last.sinks = getSinks(nodes, nodes[last.this].parent)
        /\ last.pass = filter([ns |-> nodes, beh |-> AllRead],
                              nodes[last.this].parent,
                              MakeRecord(nodes, last.this, last.level, "props"),
                              EmptyRun).res
        /\ last.props = propTransform(nodes, nodes[last.this].parent, last.raw).val

====
